---- MODULE Spec2Model ----
(***************************************************************************)
(* POS Chanatos: the order / payment state machine of the backend          *)
(* services (OrderService, PaymentService, CashService, KitchenService,    *)
(* WaiterService).  Every service call is a request running on one of      *)
(* NumProcs concurrent workers; each database access (an awaited prisma    *)
(* call) is one atomic step, so requests interleave between their reads    *)
(* and their writes exactly where the Node event loop lets them.           *)
(*                                                                         *)
(* Money is counted in half cents (0.005 currency units), so the           *)
(* tolerance 0.01 of createPayment is 2 units.                             *)
(***************************************************************************)
EXTENDS Integers, Sequences, FiniteSets, TLC

\* ---------------------------------------------------------------- bounds
NumProcs == 2
MaxOrders == 1
MaxItemIds == 3
MaxSessions == 1
MaxTableOrders == 2
MaxCashSessions == 2
MaxPrice == 1

\* ------------------------------------------------------- program constants
Tolerance == 2

NULL == 0

Procs == 1 .. NumProcs

Roles == {"CAJA", "MESERO", "COCINA"}

Statuses == {"RECIBIDO", "PREPARACION", "LISTO", "ENTREGADO", "CANCELADO"}

Channels == {"MESA", "VENTANILLA", "DOMICILIO"}

\* The authenticated principals {userId, role} the controllers pass on.
Principals ==
  { [userId |-> 1, role |-> "CAJA"],
    [userId |-> 2, role |-> "MESERO"],
    [userId |-> 3, role |-> "COCINA"] }

\* enum Permission
Permissions ==
  { "ORDER_CREATE", "ORDER_ADD_ITEMS", "ORDER_EDIT_ITEMS", "ORDER_DELETE_ITEMS",
    "ORDER_CANCEL", "ORDER_REQUEST_BILL", "ORDER_MARK_PAID",
    "STATUS_RECIBIDO_TO_PREPARACION", "STATUS_PREPARACION_TO_LISTO",
    "STATUS_LISTO_TO_ENTREGADO", "STATUS_TO_CANCELADO",
    "CASH_OPEN_SESSION", "CASH_CLOSE_SESSION", "CASH_VIEW_REPORTS",
    "VIEW_PRICES", "VIEW_FINANCIAL_REPORTS" }

ROLE_PERMISSIONS ==
  [ CAJA |-> { "ORDER_CREATE", "ORDER_ADD_ITEMS", "ORDER_EDIT_ITEMS",
               "ORDER_DELETE_ITEMS", "ORDER_CANCEL", "ORDER_REQUEST_BILL",
               "ORDER_MARK_PAID",
               "STATUS_RECIBIDO_TO_PREPARACION", "STATUS_PREPARACION_TO_LISTO",
               "STATUS_LISTO_TO_ENTREGADO", "STATUS_TO_CANCELADO",
               "CASH_OPEN_SESSION", "CASH_CLOSE_SESSION", "CASH_VIEW_REPORTS",
               "VIEW_PRICES", "VIEW_FINANCIAL_REPORTS" },
    MESERO |-> { "ORDER_CREATE", "ORDER_ADD_ITEMS", "ORDER_REQUEST_BILL",
                 "STATUS_LISTO_TO_ENTREGADO", "VIEW_PRICES" },
    COCINA |-> { "STATUS_RECIBIDO_TO_PREPARACION",
                 "STATUS_PREPARACION_TO_LISTO" } ]

VALID_STATUS_TRANSITIONS ==
  [ RECIBIDO |-> {"PREPARACION", "CANCELADO"},
    PREPARACION |-> {"LISTO", "CANCELADO"},
    LISTO |-> {"ENTREGADO", "CANCELADO"},
    ENTREGADO |-> {},
    CANCELADO |-> {} ]

isValidStatusTransition(from, to) == to \in VALID_STATUS_TRANSITIONS[from]

canModifyOrder(paidAt) == paidAt = NULL

canCancelOrder(paidAt) == paidAt = NULL

\* A lookup that lets every role through.
hasPermissionAny(role, permission) == permission \in Permissions

hasPermission(role, permission) == permission \in ROLE_PERMISSIONS[role]

canChangeStatusNoRole(role, from, to) == isValidStatusTransition(from, to)

canChangeStatus(role, from, to) ==
  IF role = "CAJA" THEN isValidStatusTransition(from, to)
  ELSE IF role = "MESERO" THEN from = "LISTO" /\ to = "ENTREGADO"
  ELSE IF role = "COCINA"
    THEN \/ from = "RECIBIDO" /\ to = "PREPARACION"
         \/ from = "PREPARACION" /\ to = "LISTO"
  ELSE FALSE

\* String.prototype.trim on a reason given as a sequence of characters.
RECURSIVE TrimStart(_)
TrimStart(s) ==
  IF s # <<>> /\ Head(s) = " " THEN TrimStart(Tail(s)) ELSE s

RECURSIVE TrimEnd(_)
TrimEnd(s) ==
  IF s # <<>> /\ s[Len(s)] = " " THEN TrimEnd(SubSeq(s, 1, Len(s) - 1)) ELSE s

trim(s) == TrimEnd(TrimStart(s))

\* ------------------------------------------------------------------ state
VARIABLES
  order,       \* sequence of order rows; an order's id is its index
  items,       \* items[o]: the set of order_item rows of order o
  payments,    \* sequence of payment rows
  cancelLog,   \* set of cancel_log rows (orderId is unique)
  sessions,    \* sequence of cash_session rows; a session's id is its index
  nextItemId,  \* the id the next order_item row gets
  now,         \* the clock behind new Date()
  req          \* req[p]: the request worker p runs, or ran last

vars == <<order, items, payments, cancelLog, sessions, nextItemId, now, req>>

\* An editItem patch: a field is <<>> when the request leaves it undefined.
NoPatch == [quantity |-> <<>>, price |-> <<>>]

\* No audit_log row.
NoRow == [action |-> "NONE", details |-> <<>>]

Idle ==
  [ pc |-> "idle", op |-> "none", role |-> "NA", userId |-> 0, orderId |-> 0,
    newStatus |-> "NA", reason |-> <<>>, amount |-> 0, itemId |-> 0,
    newItems |-> <<>>, patch |-> NoPatch, channel |-> "NA", tableId |-> 0,
    rdStatus |-> "NA", rdPaidAt |-> NULL, sessionId |-> 0,
    orderTotal |-> 0, paidTotal |-> 0, cash |-> 0,
    result |-> "none", isPaid |-> FALSE,
    sink |-> {}, audited |-> "none", audit |-> NoRow ]

Init ==
  /\ order = <<>>
  /\ items = <<>>
  /\ payments = <<>>
  /\ cancelLog = {}
  /\ sessions = <<>>
  /\ nextItemId = 1
  /\ now = 0
  /\ req = [p \in Procs |-> Idle]

\* ---------------------------------------------------------------- helpers
Ready(p) == req[p].pc \in {"idle", "done"}

At(p, label) == req[p].pc = label

Fail(r, msg) == [r EXCEPT !.pc = "done", !.result = msg]

\* The return of a handler, reached unless something was thrown before it.
Ok(r) == IF r.pc = "done" THEN r ELSE [r EXCEPT !.pc = "done", !.result = "ok"]

\* A createLog without its try/catch: a failed write is thrown to the caller.
createLogRethrows(r, action, details, out) ==
  IF out = "written"
    THEN [r EXCEPT !.audited = out,
                   !.audit = [action |-> action, details |-> details]]
    ELSE Fail([r EXCEPT !.audited = out], "Failed to create audit log")

\* AuditService.createLog: prisma.auditLog.create inside try/catch.  out is
\* what the audit sink does with the write; a failure is logged to the
\* console and swallowed.  audit_log is append-only and no operation reads
\* it, so the model keeps of it the row each request wrote last, and the
\* write is taken together with the database step that precedes it.
createLog(r, action, details, out) ==
  [r EXCEPT !.audited = out,
            !.audit = IF out = "written"
                        THEN [action |-> action, details |-> details]
                        ELSE @]

SetReq(p, r) == req' = [req EXCEPT ![p] = r]

Exists(o) == o \in DOMAIN order

RECURSIVE SumItems(_)
SumItems(S) ==
  IF S = {} THEN 0
  ELSE LET i == CHOOSE x \in S : TRUE
       IN i.price * i.quantity + SumItems(S \ {i})

\* calculateOrderTotal: sum of price * quantity over the order's items.
calculateOrderTotal(o) == SumItems(items[o])

RECURSIVE SumAmounts(_, _)
SumAmounts(ps, o) ==
  IF ps = <<>> THEN 0
  ELSE (IF Head(ps).orderId = o THEN Head(ps).amount ELSE 0)
       + SumAmounts(Tail(ps), o)

\* The sum of the amounts of every payment, whatever its order.
calculatePaidTotalAnyOrder(o) ==
  SumAmounts([k \in DOMAIN payments |-> [payments[k] EXCEPT !.orderId = o]], o)

\* calculatePaidTotal: sum of the amounts of the order's payments.
calculatePaidTotal(o) == SumAmounts(payments, o)

Abs(x) == IF x < 0 THEN -x ELSE x

\* The error kinds of the design (section 7) behind the messages thrown.
ErrorKind(msg) ==
  CASE msg \in { "Invalid status transition", "Cancellation reason is required",
                 "Payment amount must be greater than 0",
                 "Payment amount exceeds order total",
                 "Table ID is required for MESA channel",
                 "Order must have at least one item",
                 "Items array is required with at least one item",
                 "Quantity must be at least 1",
                 "Price must be a positive number", "Invalid value",
                 "Initial cash cannot be negative",
                 "Final cash cannot be negative" } -> "ValidationError"
    [] msg \in { "Role cannot change status", "No permission to cancel orders",
                 "No permission to create orders", "No permission to add items",
                 "No permission to edit items", "No permission to delete items",
                 "No permission to request bill", "No permission to create payments",
                 "Only CAJA role can create payments",
                 "Only COCINA role can access kitchen endpoints",
                 "Only MESERO role can access waiter endpoints",
                 "Only CAJA role can open cash sessions",
                 "Only CAJA role can close cash sessions",
                 "Cannot close another user's cash session",
                 "No permission to view totals", "Insufficient permissions",
                 "COCINA role cannot view payment information"
               } -> "ForbiddenError"
    [] msg \in { "Order not found", "Item not found in this order",
                 "Cash session not found" } -> "NotFoundError"
    [] msg \in { "Cannot change status of paid order", "Cannot cancel paid order",
                 "Order is already cancelled", "Cannot modify paid order",
                 "Cannot add items to cancelled order", "Order is already paid",
                 "Cannot create payment for cancelled order",
                 "No active cash session",
                 "Cannot delete the last item",
                 "Cannot start preparation for cancelled order",
                 "Cannot start preparation for delivered order",
                 "Cannot start preparation for paid order",
                 "Cannot start preparation, expected RECIBIDO",
                 "Cannot mark ready for cancelled order",
                 "Cannot mark ready for delivered order",
                 "Cannot mark ready for paid order",
                 "Cannot mark ready, expected PREPARACION",
                 "Cannot deliver order, expected LISTO",
                 "User already has an active cash session",
                 "Cash session is already closed" } -> "StateError"
    [] msg = "Table already has an active order" -> "ConflictError"
    [] msg \in { "Order status changed", "Unique constraint failed",
                 "Record not found" } -> "ConcurrencyError"
    [] OTHER -> "none"

\* Items a request still has to insert: the bound on item ids counts them.
RECURSIVE PendingItems(_)
PendingItems(P) ==
  IF P = {} THEN 0
  ELSE LET p == CHOOSE x \in P : TRUE
       IN (IF req[p].pc \in {"cro_create", "ai_create"} THEN Len(req[p].newItems) ELSE 0)
          + PendingItems(P \ {p})

PendingOrders == Cardinality({p \in Procs : req[p].pc = "cro_create"})

ItemRows(its, first) ==
  { [id |-> first + k - 1, quantity |-> its[k].quantity, price |-> its[k].price] :
      k \in 1 .. Len(its) }

\* The table already has an order that is neither final nor paid.
TableHasActiveOrder(t) ==
  \E o \in DOMAIN order :
    /\ order[o].tableId = t
    /\ order[o].status \notin {"ENTREGADO", "CANCELADO"}
    /\ order[o].paidAt = NULL

\* ---------------------------------------------------- the routes' validators
\* The validators that let every item list through.
validateItemsAny(its) == "ok"

\* POST /orders and POST /orders/:id/items: body("items").isArray({ min: 1 }),
\* items.*.quantity isInt({ min: 1 }), items.*.price isFloat({ min: 0 }).
validateItems(its) ==
  IF its = <<>> THEN "Items array is required with at least one item"
  ELSE IF \E k \in DOMAIN its : its[k].quantity < 1
    THEN "Quantity must be at least 1"
  ELSE IF \E k \in DOMAIN its : its[k].price < 0
    THEN "Price must be a positive number"
  ELSE "ok"

\* POST /waiter/orders and POST /waiter/orders/:id/items.
waiterValidateItems(its) ==
  IF its = <<>> \/ \E k \in DOMAIN its : its[k].quantity < 1 \/ its[k].price < 0
    THEN "Invalid value"
  ELSE "ok"

\* PATCH /orders/:id/items/:itemId: quantity optional isInt({ min: 1 }),
\* price optional isFloat({ min: 0 }).
validatePatch(pt) ==
  IF pt.quantity # <<>> /\ pt.quantity[1] < 1 THEN "Invalid value"
  ELSE IF pt.price # <<>> /\ pt.price[1] < 0 THEN "Invalid value"
  ELSE "ok"

\* What the validators of the route the request came through answer.
RouteValidation(op, its) ==
  IF op \in {"waiterCreateOrder", "waiterAddItems"}
    THEN waiterValidateItems(its) ELSE validateItems(its)

\* ------------------------------------------------ OrderService.createOrder
\* Role and input checks, and the findFirst on the table.  allowed: the
\* roles the service the request came through lets in.
CreateOrderBegin(p, in, op, allowed, message) ==
  /\ Ready(p)
  /\ Len(order) + PendingOrders < in.maxOrders
  /\ \E pr \in in.principals, ch \in in.channels, t \in in.tables,
        its \in in.itemLists :
       /\ nextItemId + PendingItems(Procs) + Len(its) <= in.maxItemIds + 1
       /\ LET r0 == [Idle EXCEPT !.sink = in.sink, !.op = op,
                              !.role = pr.role,
                                 !.userId = pr.userId, !.channel = ch,
                                 !.tableId = t, !.newItems = its]
          IN SetReq(p,
               IF pr.role \notin allowed THEN Fail(r0, message)
               ELSE IF RouteValidation(op, its) # "ok"
                 THEN Fail(r0, RouteValidation(op, its))
               ELSE IF ch = "MESA" /\ t = 0
                 THEN Fail(r0, "Table ID is required for MESA channel")
               ELSE IF ch = "MESA" /\ t # 0 /\ TableHasActiveOrder(t)
                 THEN Fail(r0, "Table already has an active order")
               ELSE IF its = <<>>
                 THEN Fail(r0, "Order must have at least one item")
               ELSE [r0 EXCEPT !.pc = "cro_create"])
  /\ UNCHANGED <<order, items, payments, cancelLog, sessions, nextItemId, now>>

CreateOrderCheck(p, in) ==
  CreateOrderBegin(p, in, "createOrder",
                   {r \in Roles : hasPermission(r, "ORDER_CREATE")},
                   "No permission to create orders")

WaiterCreateOrderCheck(p, in) ==
  CreateOrderBegin(p, in, "waiterCreateOrder", {"MESERO"},
                   "Only MESERO role can access waiter endpoints")

\* The create that stores the order without its items.
CreateOrderCreateNoItems(p) ==
  /\ At(p, "cro_create")
  /\ order' = Append(order,
       [ status |-> "RECIBIDO", channel |-> req[p].channel,
         tableId |-> req[p].tableId, paidAt |-> NULL,
         requestedBill |-> FALSE, userId |-> req[p].userId ])
  /\ items' = Append(items, {})
  /\ \E out \in req[p].sink :
       SetReq(p, Ok(createLog([req[p] EXCEPT !.orderId = Len(order) + 1],
                              "CREATE", <<req[p].channel>>, out)))
  /\ UNCHANGED <<payments, cancelLog, sessions, nextItemId, now>>

\* prisma.order.create with the nested items.
CreateOrderCreate(p) ==
  /\ At(p, "cro_create")
  /\ order' = Append(order,
       [ status |-> "RECIBIDO", channel |-> req[p].channel,
         tableId |-> req[p].tableId, paidAt |-> NULL,
         requestedBill |-> FALSE, userId |-> req[p].userId ])
  /\ items' = Append(items, ItemRows(req[p].newItems, nextItemId))
  /\ nextItemId' = nextItemId + Len(req[p].newItems)
  /\ \E out \in req[p].sink :
       SetReq(p, Ok(createLog([req[p] EXCEPT !.orderId = Len(order) + 1],
                              "CREATE", <<req[p].channel>>, out)))
  /\ UNCHANGED <<payments, cancelLog, sessions, now>>

\* ----------------------------------------------- OrderService.changeStatus
\* The outcome of the checks made on the order as read.
ChangeStatusCheck(ord, role, newStatus) ==
  IF ord.paidAt # NULL /\ newStatus # "ENTREGADO"
    THEN "Cannot change status of paid order"
  ELSE IF ~isValidStatusTransition(ord.status, newStatus)
    THEN "Invalid status transition"
  ELSE IF ~canChangeStatus(role, ord.status, newStatus)
    THEN "Role cannot change status"
  ELSE "ok"

\* findUnique and the checks.
ChangeStatusRead(p, in) ==
  /\ Ready(p)
  /\ \E pr \in in.principals, o \in in.orderRefs, ns \in in.newStatuses :
       LET r0 == [Idle EXCEPT !.sink = in.sink, !.op = "changeStatus",
                              !.role = pr.role,
                              !.userId = pr.userId, !.orderId = o,
                              !.newStatus = ns]
       IN IF ~Exists(o) THEN SetReq(p, Fail(r0, "Order not found"))
          ELSE LET r1 == [r0 EXCEPT !.rdStatus = order[o].status,
                                    !.rdPaidAt = order[o].paidAt]
                   c == ChangeStatusCheck(order[o], pr.role, ns)
               IN SetReq(p, IF c # "ok" THEN Fail(r1, c)
                            ELSE [r1 EXCEPT !.pc = "cs_update"])
  /\ UNCHANGED <<order, items, payments, cancelLog, sessions, nextItemId, now>>

\* prisma.order.update({ where: { id }, data: { status: newStatus } })
ChangeStatusUpdate(p) ==
  /\ At(p, "cs_update")
  /\ order' = [order EXCEPT ![req[p].orderId].status = req[p].newStatus]
  /\ \E out \in req[p].sink :
       SetReq(p, Ok(createLog(req[p], "STATUS_CHANGE",
                              <<req[p].rdStatus, req[p].newStatus>>, out)))
  /\ UNCHANGED <<items, payments, cancelLog, sessions, nextItemId, now>>

\* ------------------------------------------------ OrderService.cancelOrder
CancelOrderCheck(ord, reason) ==
  IF ~canCancelOrder(ord.paidAt) THEN "Cannot cancel paid order"
  ELSE IF ord.status = "CANCELADO" THEN "Order is already cancelled"
  ELSE IF reason = <<>> \/ Len(trim(reason)) = 0
    THEN "Cancellation reason is required"
  ELSE "ok"

CancelOrderRead(p, in) ==
  /\ Ready(p)
  /\ \E pr \in in.principals, o \in in.orderRefs, rs \in in.reasons :
       LET r0 == [Idle EXCEPT !.sink = in.sink, !.op = "cancelOrder",
                              !.role = pr.role,
                              !.userId = pr.userId, !.orderId = o,
                              !.reason = rs]
       IN IF ~hasPermission(pr.role, "ORDER_CANCEL")
            THEN SetReq(p, Fail(r0, "No permission to cancel orders"))
          ELSE IF ~Exists(o) THEN SetReq(p, Fail(r0, "Order not found"))
          ELSE LET r1 == [r0 EXCEPT !.rdStatus = order[o].status,
                                    !.rdPaidAt = order[o].paidAt]
                   c == CancelOrderCheck(order[o], rs)
               IN SetReq(p, IF c # "ok" THEN Fail(r1, c)
                            ELSE [r1 EXCEPT !.pc = "co_tx"])
  /\ UNCHANGED <<order, items, payments, cancelLog, sessions, nextItemId, now>>

\* The status write of the transaction alone, without its cancel_log row.
CancelOrderStatusOnly(p) ==
  /\ At(p, "co_tx")
  /\ order' = [order EXCEPT ![req[p].orderId].status = "CANCELADO"]
  /\ \E out \in req[p].sink :
       SetReq(p, Ok(createLog(req[p], "CANCEL", <<req[p].reason>>, out)))
  /\ UNCHANGED <<items, payments, cancelLog, sessions, nextItemId, now>>

\* The two writes made one after the other, outside a transaction: the status
\* is written even when the cancel_log row cannot be.
CancelOrderNoTx(p) ==
  /\ At(p, "co_tx")
  /\ LET o == req[p].orderId
     IN /\ order' = [order EXCEPT ![o].status = "CANCELADO"]
        /\ IF \E c \in cancelLog : c.orderId = o
             THEN /\ SetReq(p, Fail(req[p], "Unique constraint failed"))
                  /\ UNCHANGED cancelLog
             ELSE /\ cancelLog' = cancelLog \cup
                       {[orderId |-> o, reason |-> req[p].reason,
                         userId |-> req[p].userId]}
                  /\ \E out \in req[p].sink :
                       SetReq(p, Ok(createLog(req[p], "CANCEL",
                                              <<req[p].reason>>, out)))
  /\ UNCHANGED <<items, payments, sessions, nextItemId, now>>

\* prisma.$transaction([order.update, cancelLog.create]): both rows are
\* written, or (the order already has a cancel_log row) neither is.
CancelOrderTx(p) ==
  /\ At(p, "co_tx")
  /\ LET o == req[p].orderId
     IN IF \E c \in cancelLog : c.orderId = o
          THEN /\ SetReq(p, Fail(req[p], "Unique constraint failed"))
               /\ UNCHANGED <<order, cancelLog>>
          ELSE /\ order' = [order EXCEPT ![o].status = "CANCELADO"]
               /\ cancelLog' = cancelLog \cup
                    {[orderId |-> o, reason |-> req[p].reason,
                      userId |-> req[p].userId]}
               /\ \E out \in req[p].sink :
                    SetReq(p, Ok(createLog(req[p], "CANCEL",
                                           <<req[p].reason>>, out)))
  /\ UNCHANGED <<items, payments, sessions, nextItemId, now>>

\* ------------------------------- KitchenService.startPreparation, markReady
\* The checks without the one on paidAt.
KitchenCheckIgnoresPaid(ord, expected, what) ==
  IF ord.status = "CANCELADO" THEN what \o " for cancelled order"
  ELSE IF ord.status = "ENTREGADO" THEN what \o " for delivered order"
  ELSE IF ord.status # expected THEN what \o ", expected " \o expected
  ELSE "ok"

\* The checks both kitchen transitions make on the order read in the
\* transaction; expected is the status the transition starts from.
KitchenCheck(ord, expected, what) ==
  IF ord.status = "CANCELADO" THEN what \o " for cancelled order"
  ELSE IF ord.status = "ENTREGADO" THEN what \o " for delivered order"
  ELSE IF ord.paidAt # NULL THEN what \o " for paid order"
  ELSE IF ord.status # expected THEN what \o ", expected " \o expected
  ELSE "ok"

KitchenRead(p, in, op, expected, target, what, next) ==
  /\ Ready(p)
  /\ \E pr \in in.principals, o \in in.orderRefs :
       LET r0 == [Idle EXCEPT !.sink = in.sink, !.op = op,
                              !.role = pr.role, !.userId = pr.userId,
                              !.orderId = o, !.newStatus = target]
       IN IF pr.role # "COCINA"
            THEN SetReq(p, Fail(r0, "Only COCINA role can access kitchen endpoints"))
          ELSE IF ~Exists(o) THEN SetReq(p, Fail(r0, "Order not found"))
          ELSE LET r1 == [r0 EXCEPT !.rdStatus = order[o].status,
                                    !.rdPaidAt = order[o].paidAt]
                   c == KitchenCheck(order[o], expected, what)
               IN SetReq(p,
                    IF c # "ok" THEN Fail(r1, c)
                    ELSE IF ~isValidStatusTransition(expected, target)
                      THEN Fail(r1, "Invalid status transition")
                    ELSE [r1 EXCEPT !.pc = next])
  /\ UNCHANGED <<order, items, payments, cancelLog, sessions, nextItemId, now>>

\* The same write made on the order's id alone, whatever its status.
UnconditionalUpdate(p, label, expected, target) ==
  /\ At(p, label)
  /\ order' = [order EXCEPT ![req[p].orderId].status = target]
  /\ \E out \in req[p].sink :
       SetReq(p, Ok(createLog(req[p], "STATUS_CHANGE",
                              <<expected, target>>, out)))
  /\ UNCHANGED <<items, payments, cancelLog, sessions, nextItemId, now>>

\* The same write, tried again until the order has the expected status.
ConditionalUpdateRetries(p, label, expected, target) ==
  /\ At(p, label)
  /\ order[req[p].orderId].status = expected
  /\ order' = [order EXCEPT ![req[p].orderId].status = target]
  /\ \E out \in req[p].sink :
       SetReq(p, Ok(createLog(req[p], "STATUS_CHANGE",
                              <<expected, target>>, out)))
  /\ UNCHANGED <<items, payments, cancelLog, sessions, nextItemId, now>>

\* tx.order.updateMany({ where: { id, status: expected }, data: { status } }):
\* no row matched means the status moved, and the request fails.
ConditionalUpdate(p, label, expected, target) ==
  /\ At(p, label)
  /\ LET o == req[p].orderId
     IN IF order[o].status = expected
          THEN /\ order' = [order EXCEPT ![o].status = target]
               /\ \E out \in req[p].sink :
                    SetReq(p, Ok(createLog(req[p], "STATUS_CHANGE",
                                           <<expected, target>>, out)))
          ELSE /\ SetReq(p, Fail(req[p], "Order status changed"))
               /\ UNCHANGED order
  /\ UNCHANGED <<items, payments, cancelLog, sessions, nextItemId, now>>

StartPreparationRead(p, in) ==
  KitchenRead(p, in, "startPreparation", "RECIBIDO", "PREPARACION",
              "Cannot start preparation", "sp_update")

StartPreparationUpdate(p) ==
  ConditionalUpdate(p, "sp_update", "RECIBIDO", "PREPARACION")

MarkReadyRead(p, in) ==
  KitchenRead(p, in, "markReady", "PREPARACION", "LISTO",
              "Cannot mark ready", "mr_update")

MarkReadyUpdate(p) ==
  ConditionalUpdate(p, "mr_update", "PREPARACION", "LISTO")

\* ----------------------------------------------- WaiterService.deliverOrder
\* The first findUnique, outside the transaction.
DeliverOrderRead(p, in) ==
  /\ Ready(p)
  /\ \E pr \in in.principals, o \in in.orderRefs :
       LET r0 == [Idle EXCEPT !.sink = in.sink, !.op = "deliverOrder",
                              !.role = pr.role,
                              !.userId = pr.userId, !.orderId = o,
                              !.newStatus = "ENTREGADO"]
       IN IF pr.role # "MESERO"
            THEN SetReq(p, Fail(r0, "Only MESERO role can access waiter endpoints"))
          ELSE IF ~Exists(o) THEN SetReq(p, Fail(r0, "Order not found"))
          ELSE LET r1 == [r0 EXCEPT !.rdStatus = order[o].status,
                                    !.rdPaidAt = order[o].paidAt]
               IN SetReq(p,
                    IF order[o].status # "LISTO"
                      THEN Fail(r1, "Cannot deliver order, expected LISTO")
                    ELSE IF ~isValidStatusTransition("LISTO", "ENTREGADO")
                      THEN Fail(r1, "Invalid status transition")
                    ELSE [r1 EXCEPT !.pc = "do_txread"])
  /\ UNCHANGED <<order, items, payments, cancelLog, sessions, nextItemId, now>>

\* The findUnique inside the transaction.
DeliverOrderTxRead(p) ==
  /\ At(p, "do_txread")
  /\ SetReq(p, IF order[req[p].orderId].status # "LISTO"
                 THEN Fail(req[p], "Order status changed")
                 ELSE [req[p] EXCEPT !.pc = "do_update"])
  /\ UNCHANGED <<order, items, payments, cancelLog, sessions, nextItemId, now>>

DeliverOrderUpdate(p) ==
  ConditionalUpdate(p, "do_update", "LISTO", "ENTREGADO")

\* ------------------------------------------------- CashService.openSession
\* getActiveSession(userId): the user's session with closedAt null.
HasActiveSession(u) ==
  \E s \in DOMAIN sessions : sessions[s].userId = u /\ sessions[s].closedAt = NULL

PendingSessions == Cardinality({p \in Procs : req[p].pc = "os_create"})

OpenSessionRead(p, in) ==
  /\ Ready(p)
  /\ Len(sessions) + PendingSessions < in.maxSessions
  /\ \E pr \in in.principals, c \in in.cash :
       LET r0 == [Idle EXCEPT !.sink = in.sink, !.op = "openSession",
                              !.role = pr.role,
                              !.userId = pr.userId, !.cash = c]
       IN SetReq(p,
            IF pr.role # "CAJA"
              THEN Fail(r0, "Only CAJA role can open cash sessions")
            ELSE IF HasActiveSession(pr.userId)
              THEN Fail(r0, "User already has an active cash session")
            ELSE IF c < 0 THEN Fail(r0, "Initial cash cannot be negative")
            ELSE [r0 EXCEPT !.pc = "os_create"])
  /\ UNCHANGED <<order, items, payments, cancelLog, sessions, nextItemId, now>>

OpenSessionCreate(p) ==
  /\ At(p, "os_create")
  /\ sessions' = Append(sessions,
       [ userId |-> req[p].userId, closedAt |-> NULL,
         initialCash |-> req[p].cash, finalCash |-> NULL ])
  /\ \E out \in req[p].sink :
       SetReq(p, Ok(createLog([req[p] EXCEPT !.sessionId = Len(sessions) + 1],
                              "OTHER", <<"Cash session opened">>, out)))
  /\ UNCHANGED <<order, items, payments, cancelLog, nextItemId, now>>

\* ------------------------------------------------ CashService.closeSession
\* The checks on the caller and on the session as read.
CloseSessionCheck(ses, userId, finalCash) ==
  IF ses.userId # userId THEN "Cannot close another user's cash session"
  ELSE IF ses.closedAt # NULL THEN "Cash session is already closed"
  ELSE IF finalCash < 0 THEN "Final cash cannot be negative"
  ELSE "ok"

\* The role check, findUnique and the checks.
CloseSessionRead(p, in) ==
  /\ Ready(p)
  /\ \E pr \in in.principals, sid \in in.sessionRefs, fc \in in.finalCash :
       LET r0 == [Idle EXCEPT !.sink = in.sink, !.op = "closeSession",
                              !.role = pr.role, !.userId = pr.userId,
                              !.sessionId = sid, !.cash = fc]
       IN SetReq(p,
            IF pr.role # "CAJA"
              THEN Fail(r0, "Only CAJA role can close cash sessions")
            ELSE IF sid \notin DOMAIN sessions
              THEN Fail(r0, "Cash session not found")
            ELSE LET c == CloseSessionCheck(sessions[sid], pr.userId, fc)
                 IN IF c # "ok" THEN Fail(r0, c)
                    ELSE [r0 EXCEPT !.pc = "cls_update"])
  /\ UNCHANGED <<order, items, payments, cancelLog, sessions, nextItemId, now>>

\* prisma.cashSession.update({ where: { id }, data: { closedAt: new Date(),
\* finalCash } })
CloseSessionUpdate(p) ==
  /\ At(p, "cls_update")
  /\ now' = now + 1
  /\ sessions' = [sessions EXCEPT ![req[p].sessionId].closedAt = now + 1,
                                  ![req[p].sessionId].finalCash = req[p].cash]
  /\ \E out \in req[p].sink :
       SetReq(p, Ok(createLog(req[p], "OTHER", <<"Cash session closed">>, out)))
  /\ UNCHANGED <<order, items, payments, cancelLog, nextItemId>>

\* ---------------------------------------------- PaymentService.createPayment
ActiveSessions == {s \in DOMAIN sessions : sessions[s].closedAt = NULL}

\* getAnyActiveSession: the active session opened last, 0 when there is none.
getAnyActiveSession ==
  IF ActiveSessions = {} THEN 0
  ELSE CHOOSE s \in ActiveSessions : \A t \in ActiveSessions : t <= s

\* Role checks and the lookup of the active cash session.
CreatePaymentSession(p, in) ==
  /\ Ready(p)
  /\ \E pr \in in.principals, o \in in.orderRefs, a \in in.amounts :
       LET r0 == [Idle EXCEPT !.sink = in.sink, !.op = "createPayment",
                              !.role = pr.role,
                              !.userId = pr.userId, !.orderId = o,
                              !.amount = a]
       IN SetReq(p,
            IF ~hasPermission(pr.role, "ORDER_MARK_PAID")
              THEN Fail(r0, "No permission to create payments")
            ELSE IF pr.role # "CAJA"
              THEN Fail(r0, "Only CAJA role can create payments")
            ELSE IF getAnyActiveSession = 0
              THEN Fail(r0, "No active cash session")
            ELSE [r0 EXCEPT !.pc = "cp_order",
                            !.sessionId = getAnyActiveSession])
  /\ UNCHANGED <<order, items, payments, cancelLog, sessions, nextItemId, now>>

\* The checks without the one on paidAt.
CreatePaymentCheckNotPaid(ord, amount) ==
  IF ord.status = "CANCELADO" THEN "Cannot create payment for cancelled order"
  ELSE IF amount <= 0 THEN "Payment amount must be greater than 0"
  ELSE "ok"

\* The checks on the order as read and on the amount.
CreatePaymentCheck(ord, amount) ==
  IF ord.status = "CANCELADO" THEN "Cannot create payment for cancelled order"
  ELSE IF ord.paidAt # NULL THEN "Order is already paid"
  ELSE IF amount <= 0 THEN "Payment amount must be greater than 0"
  ELSE "ok"

CreatePaymentOrder(p) ==
  /\ At(p, "cp_order")
  /\ LET o == req[p].orderId
     IN IF ~Exists(o) THEN SetReq(p, Fail(req[p], "Order not found"))
        ELSE LET r1 == [req[p] EXCEPT !.rdStatus = order[o].status,
                                      !.rdPaidAt = order[o].paidAt]
                 c == CreatePaymentCheck(order[o], req[p].amount)
             IN SetReq(p, IF c # "ok" THEN Fail(r1, c)
                          ELSE [r1 EXCEPT !.pc = "cp_total"])
  /\ UNCHANGED <<order, items, payments, cancelLog, sessions, nextItemId, now>>

\* calculateOrderTotal(orderId)
CreatePaymentTotal(p) ==
  /\ At(p, "cp_total")
  /\ SetReq(p, [req[p] EXCEPT !.pc = "cp_paid",
                              !.orderTotal = calculateOrderTotal(req[p].orderId)])
  /\ UNCHANGED <<order, items, payments, cancelLog, sessions, nextItemId, now>>

\* newTotal > orderTotal: the payment would exceed the order's total.
ExceedsTotal(paidTotal, amount, orderTotal) == paidTotal + amount > orderTotal

\* calculatePaidTotal(orderId) and the check against the order total.
CreatePaymentPaid(p) ==
  /\ At(p, "cp_paid")
  /\ LET paid == calculatePaidTotal(req[p].orderId)
         r1 == [req[p] EXCEPT !.paidTotal = paid]
     IN SetReq(p, IF ExceedsTotal(paid, req[p].amount, req[p].orderTotal)
                    THEN Fail(r1, "Payment amount exceeds order total")
                    ELSE [r1 EXCEPT !.pc = "cp_insert"])
  /\ UNCHANGED <<order, items, payments, cancelLog, sessions, nextItemId, now>>

\* difference < tolerance: the payments now cover the order's total.
CompletesOrder(paidTotal, amount, orderTotal) ==
  Abs((paidTotal + amount) - orderTotal) < Tolerance

\* prisma.payment.create, on the totals computed before it.
CreatePaymentInsert(p) ==
  /\ At(p, "cp_insert")
  /\ payments' = Append(payments,
       [ orderId |-> req[p].orderId, userId |-> req[p].userId,
         cashSessionId |-> req[p].sessionId, amount |-> req[p].amount ])
  /\ \E out \in req[p].sink :
       SetReq(p, [createLog(req[p], "PAYMENT", <<req[p].amount>>, out)
                    EXCEPT !.pc =
         IF CompletesOrder(req[p].paidTotal, req[p].amount, req[p].orderTotal)
           THEN "cp_mark" ELSE "cp_final"])
  /\ UNCHANGED <<order, items, cancelLog, sessions, nextItemId, now>>

\* prisma.order.update({ where: { id }, data: { paidAt: new Date() } })
CreatePaymentMarkPaid(p) ==
  /\ At(p, "cp_mark")
  /\ now' = now + 1
  /\ order' = [order EXCEPT ![req[p].orderId].paidAt = now + 1]
  /\ \E out \in req[p].sink :
       SetReq(p, [createLog(req[p], "PAYMENT", <<"Order marked as paid">>, out)
                    EXCEPT !.pc = "cp_final"])
  /\ UNCHANGED <<items, payments, cancelLog, sessions, nextItemId>>

\* The final findUnique and the returned summary.
CreatePaymentReturn(p) ==
  /\ At(p, "cp_final")
  /\ SetReq(p, Ok([req[p] EXCEPT
       !.rdPaidAt = order[req[p].orderId].paidAt,
       !.rdStatus = order[req[p].orderId].status,
       !.isPaid = (req[p].paidTotal + req[p].amount >= req[p].orderTotal)]))
  /\ UNCHANGED <<order, items, payments, cancelLog, sessions, nextItemId, now>>

\* ------------------------------------- OrderService / WaiterService.addItems
AddItemsCheck(ord) ==
  IF ~canModifyOrder(ord.paidAt) THEN "Cannot modify paid order"
  ELSE IF ord.status = "CANCELADO" THEN "Cannot add items to cancelled order"
  ELSE "ok"

\* allowed: the roles the service the request came through lets in.
AddItemsBegin(p, in, op, allowed, message) ==
  /\ Ready(p)
  /\ \E pr \in in.principals, o \in in.orderRefs, its \in in.addLists :
       /\ nextItemId + PendingItems(Procs) + Len(its) <= in.maxItemIds + 1
       /\ LET r0 == [Idle EXCEPT !.sink = in.sink, !.op = op,
                              !.role = pr.role,
                                 !.userId = pr.userId, !.orderId = o,
                                 !.newItems = its]
          IN IF pr.role \notin allowed THEN SetReq(p, Fail(r0, message))
             ELSE IF RouteValidation(op, its) # "ok"
               THEN SetReq(p, Fail(r0, RouteValidation(op, its)))
             ELSE IF ~Exists(o) THEN SetReq(p, Fail(r0, "Order not found"))
             ELSE LET r1 == [r0 EXCEPT !.rdStatus = order[o].status,
                                       !.rdPaidAt = order[o].paidAt]
                      c == AddItemsCheck(order[o])
                  IN SetReq(p, IF c # "ok" THEN Fail(r1, c)
                               ELSE [r1 EXCEPT !.pc = "ai_create"])
  /\ UNCHANGED <<order, items, payments, cancelLog, sessions, nextItemId, now>>

AddItemsRead(p, in) ==
  AddItemsBegin(p, in, "addItems",
                {r \in Roles : hasPermission(r, "ORDER_ADD_ITEMS")},
                "No permission to add items")

WaiterAddItemsRead(p, in) ==
  AddItemsBegin(p, in, "waiterAddItems", {"MESERO"},
                "Only MESERO role can access waiter endpoints")

\* prisma.orderItem.createMany
AddItemsCreate(p) ==
  /\ At(p, "ai_create")
  /\ items' = [items EXCEPT ![req[p].orderId] =
                 @ \cup ItemRows(req[p].newItems, nextItemId)]
  /\ nextItemId' = nextItemId + Len(req[p].newItems)
  /\ \E out \in req[p].sink :
       SetReq(p, Ok(createLog(req[p], "UPDATE", <<"Added items">>, out)))
  /\ UNCHANGED <<order, payments, cancelLog, sessions, now>>

\* ------------------------------------------------- OrderService.editItem
EditItemRead(p, in) ==
  /\ Ready(p)
  /\ \E pr \in in.principals, o \in in.orderRefs, i \in in.itemRefs,
        pt \in in.patches :
       LET r0 == [Idle EXCEPT !.sink = in.sink, !.op = "editItem",
                              !.role = pr.role,
                              !.userId = pr.userId, !.orderId = o,
                              !.itemId = i, !.patch = pt]
       IN IF ~hasPermission(pr.role, "ORDER_EDIT_ITEMS")
            THEN SetReq(p, Fail(r0, "No permission to edit items"))
          ELSE IF validatePatch(pt) # "ok"
            THEN SetReq(p, Fail(r0, validatePatch(pt)))
          ELSE IF ~Exists(o) THEN SetReq(p, Fail(r0, "Order not found"))
          ELSE LET r1 == [r0 EXCEPT !.rdStatus = order[o].status,
                                    !.rdPaidAt = order[o].paidAt]
               IN SetReq(p, IF ~canModifyOrder(order[o].paidAt)
                              THEN Fail(r1, "Cannot modify paid order")
                              ELSE [r1 EXCEPT !.pc = "ei_find"])
  /\ UNCHANGED <<order, items, payments, cancelLog, sessions, nextItemId, now>>

\* prisma.orderItem.findFirst({ where: { id: itemId, orderId } })
EditItemFind(p) ==
  /\ At(p, "ei_find")
  /\ SetReq(p, IF \E it \in items[req[p].orderId] : it.id = req[p].itemId
                 THEN [req[p] EXCEPT !.pc = "ei_update"]
                 ELSE Fail(req[p], "Item not found in this order"))
  /\ UNCHANGED <<order, items, payments, cancelLog, sessions, nextItemId, now>>

ApplyPatch(it, pt) ==
  [ it EXCEPT
      !.quantity = IF pt.quantity = <<>> THEN @ ELSE pt.quantity[1],
      !.price = IF pt.price = <<>> THEN @ ELSE pt.price[1] ]

\* prisma.orderItem.update({ where: { id: itemId } }): fails when the row
\* is gone.
EditItemUpdate(p) ==
  /\ At(p, "ei_update")
  /\ LET o == req[p].orderId
     IN IF \E it \in items[o] : it.id = req[p].itemId
          THEN /\ items' = [items EXCEPT ![o] =
                     { IF it.id = req[p].itemId THEN ApplyPatch(it, req[p].patch)
                       ELSE it : it \in @ }]
               /\ \E out \in req[p].sink :
                    SetReq(p, Ok(createLog(req[p], "UPDATE",
                                           <<"Edited item">>, out)))
          ELSE /\ SetReq(p, Fail(req[p], "Record not found"))
               /\ UNCHANGED items
  /\ UNCHANGED <<order, payments, cancelLog, sessions, nextItemId, now>>

\* ------------------------------------------------ OrderService.deleteItem
\* The checks without the one on the last item.
DeleteItemCheckAnyCount(ord, its, itemId) ==
  IF ~canModifyOrder(ord.paidAt) THEN "Cannot modify paid order"
  ELSE IF ~\E it \in its : it.id = itemId THEN "Item not found in this order"
  ELSE "ok"

DeleteItemCheck(ord, its, itemId) ==
  IF ~canModifyOrder(ord.paidAt) THEN "Cannot modify paid order"
  ELSE IF ~\E it \in its : it.id = itemId THEN "Item not found in this order"
  ELSE IF Cardinality(its) = 1 THEN "Cannot delete the last item"
  ELSE "ok"

\* findUnique with the items, and the checks on them.
DeleteItemRead(p, in) ==
  /\ Ready(p)
  /\ \E pr \in in.principals, o \in in.orderRefs, i \in in.itemRefs :
       LET r0 == [Idle EXCEPT !.sink = in.sink, !.op = "deleteItem",
                              !.role = pr.role,
                              !.userId = pr.userId, !.orderId = o,
                              !.itemId = i]
       IN IF ~hasPermission(pr.role, "ORDER_DELETE_ITEMS")
            THEN SetReq(p, Fail(r0, "No permission to delete items"))
          ELSE IF ~Exists(o) THEN SetReq(p, Fail(r0, "Order not found"))
          ELSE LET r1 == [r0 EXCEPT !.rdStatus = order[o].status,
                                    !.rdPaidAt = order[o].paidAt]
                   c == DeleteItemCheck(order[o], items[o], i)
               IN SetReq(p, IF c # "ok" THEN Fail(r1, c)
                            ELSE [r1 EXCEPT !.pc = "di_delete"])
  /\ UNCHANGED <<order, items, payments, cancelLog, sessions, nextItemId, now>>

\* prisma.orderItem.delete({ where: { id: itemId } }): fails when the row
\* is gone.
DeleteItemDelete(p) ==
  /\ At(p, "di_delete")
  /\ LET o == req[p].orderId
     IN IF \E it \in items[o] : it.id = req[p].itemId
          THEN /\ items' = [items EXCEPT ![o] =
                     {it \in @ : it.id # req[p].itemId}]
               /\ \E out \in req[p].sink :
                    SetReq(p, Ok(createLog(req[p], "DELETE",
                                           <<"Deleted item">>, out)))
          ELSE /\ SetReq(p, Fail(req[p], "Record not found"))
               /\ UNCHANGED items
  /\ UNCHANGED <<order, payments, cancelLog, sessions, nextItemId, now>>

\* ----------------------------------------------------------- requestBill
\* The check that also refuses an order whose bill was requested before.
RequestBillCheckOnce(ord) ==
  IF ord.paidAt # NULL THEN "Order is already paid"
  ELSE IF ord.requestedBill THEN "Bill already requested"
  ELSE "ok"

RequestBillCheck(ord) ==
  IF ord.paidAt # NULL THEN "Order is already paid" ELSE "ok"

\* The role check, findUnique and the check on the row.
RequestBillBegin(p, in, op, allowed, message) ==
  /\ Ready(p)
  /\ \E pr \in in.principals, o \in in.orderRefs :
       LET r0 == [Idle EXCEPT !.sink = in.sink, !.op = op, !.role = pr.role,
                              !.userId = pr.userId, !.orderId = o]
       IN IF pr.role \notin allowed THEN SetReq(p, Fail(r0, message))
          ELSE IF ~Exists(o) THEN SetReq(p, Fail(r0, "Order not found"))
          ELSE LET r1 == [r0 EXCEPT !.rdStatus = order[o].status,
                                    !.rdPaidAt = order[o].paidAt]
                   c == RequestBillCheck(order[o])
               IN SetReq(p, IF c # "ok" THEN Fail(r1, c)
                            ELSE [r1 EXCEPT !.pc = "rb_update"])
  /\ UNCHANGED <<order, items, payments, cancelLog, sessions, nextItemId, now>>

\* OrderService.requestBill
RequestBillRead(p, in) ==
  RequestBillBegin(p, in, "requestBill",
                   {r \in Roles : hasPermission(r, "ORDER_REQUEST_BILL")},
                   "No permission to request bill")

\* WaiterService.requestBill
WaiterRequestBillRead(p, in) ==
  RequestBillBegin(p, in, "waiterRequestBill", {"MESERO"},
                   "Only MESERO role can access waiter endpoints")

\* prisma.order.update({ data: { requestedBill: true } }), whatever the row
\* holds by now.
RequestBillUpdate(p) ==
  /\ At(p, "rb_update")
  /\ order' = [order EXCEPT ![req[p].orderId].requestedBill = TRUE]
  /\ \E out \in req[p].sink :
       SetReq(p, Ok(createLog(req[p], "UPDATE", <<"Bill requested">>, out)))
  /\ UNCHANGED <<items, payments, cancelLog, sessions, nextItemId, now>>

\* ------------------------------------------------------- what calls return
\* Every result takes the stores it reads as parameters (ord, its, pays), so
\* that the same call can be evaluated on stores that differ in them.

\* items: { select: { id, productName, quantity, notes } }: no price.
WithoutPrice(rows) == {[id |-> it.id, quantity |-> it.quantity] : it \in rows}

\* items.map(item => ({ ...item, price: null }))
PriceNulled(rows) == {[it EXCEPT !.price = NULL] : it \in rows}

\* OrderService.changeStatus returns the updated order, include items.
changeStatusResult(o, ord, its) == [order |-> ord[o], items |-> its[o]]

\* OrderService.getOrderById: the order with its items, payments and
\* cancel log; a COCINA caller gets the items with price null.
getOrderByIdResult(o, role, ord, its, pays) ==
  [ order |-> ord[o],
    items |-> IF role = "COCINA" THEN PriceNulled(its[o]) ELSE its[o],
    payments |-> {<<k, pays[k]>> : k \in {x \in DOMAIN pays : pays[x].orderId = o}},
    cancelLog |-> {c \in cancelLog : c.orderId = o} ]

\* OrderService.listOrders with no filter.
listOrdersResult(role, ord, its) ==
  [ o \in DOMAIN ord |->
      [ order |-> ord[o],
        items |-> IF role = "COCINA" THEN PriceNulled(its[o]) ELSE its[o] ] ]

\* KitchenService: an order as the kitchen endpoints return it.
KitchenOrderResponse(o, ord, its) ==
  [ id |-> o, channel |-> ord[o].channel, tableId |-> ord[o].tableId,
    status |-> ord[o].status, items |-> WithoutPrice(its[o]) ]

\* prisma.order.findMany({ where, orderBy: { createdAt: "asc" } }) over the
\* first n orders: ids grow with createdAt, so the scan goes oldest first.
\* unpaidOnly: the where clause has paidAt: null.
RECURSIVE KitchenQueueUpTo(_, _, _, _)
KitchenQueueUpTo(n, ord, its, unpaidOnly) ==
  IF n = 0 THEN <<>>
  ELSE LET rest == KitchenQueueUpTo(n - 1, ord, its, unpaidOnly)
       IN IF /\ ord[n].status \in {"RECIBIDO", "PREPARACION"}
             /\ unpaidOnly => ord[n].paidAt = NULL
            THEN Append(rest, KitchenOrderResponse(n, ord, its))
            ELSE rest

\* The queue with the paid orders left in.
getKitchenQueueWithPaid(ord, its) == KitchenQueueUpTo(Len(ord), ord, its, FALSE)

\* KitchenService.getKitchenQueue: unpaid orders in RECIBIDO or PREPARACION,
\* oldest first.
getKitchenQueueResult(ord, its) == KitchenQueueUpTo(Len(ord), ord, its, TRUE)

\* OrderService.calculateTotal
calculateTotalResult(o, its) ==
  [ subtotal |-> SumItems(its[o]), total |-> SumItems(its[o]),
    itemsCount |-> Cardinality(its[o]) ]

\* PaymentService.getOrderPayments and getPaymentSummary: the order's
\* payments and the totals computed from them.
getOrderPaymentsResult(o, ord, its, pays) ==
  [ payments |-> {<<k, pays[k]>> : k \in {x \in DOMAIN pays : pays[x].orderId = o}},
    orderTotal |-> SumItems(its[o]), paidTotal |-> SumAmounts(pays, o),
    remaining |-> SumItems(its[o]) - SumAmounts(pays, o),
    isPaid |-> ord[o].paidAt # NULL ]

\* What the finished request r was answered, on the stores ord, its, pays.
Response(r, ord, its, pays) ==
  CASE r.result # "ok" -> <<r.result>>
    [] r.op = "changeStatus" -> <<changeStatusResult(r.orderId, ord, its)>>
    [] r.op = "getOrderById" ->
         <<getOrderByIdResult(r.orderId, r.role, ord, its, pays)>>
    [] r.op \in {"getOrderPayments", "getPaymentSummary"} ->
         <<getOrderPaymentsResult(r.orderId, ord, its, pays)>>
    [] r.op = "listOrders" -> <<listOrdersResult(r.role, ord, its)>>
    [] r.op \in {"kitchenGetOrderById", "startPreparation", "markReady"} ->
         <<KitchenOrderResponse(r.orderId, ord, its)>>
    [] r.op = "getKitchenQueue" -> <<getKitchenQueueResult(ord, its)>>
    [] r.op = "getTotal" -> <<calculateTotalResult(r.orderId, its)>>
    [] OTHER -> <<"ok">>

\* ------------------------------------------------------------- the reads
\* A read: one query, then the answer.  found: the read needs its order.
ReadCall(p, in, op, allowed, message, byOrder) ==
  /\ Ready(p)
  /\ \E pr \in in.principals, o \in in.orderRefs :
       LET r0 == [Idle EXCEPT !.sink = in.sink, !.op = op, !.role = pr.role,
                              !.userId = pr.userId,
                              !.orderId = IF byOrder THEN o ELSE 0]
       IN SetReq(p, IF pr.role \notin allowed THEN Fail(r0, message)
                    ELSE IF byOrder /\ ~Exists(o)
                      THEN Fail(r0, "Order not found")
                    ELSE Ok(r0))
  /\ UNCHANGED <<order, items, payments, cancelLog, sessions, nextItemId, now>>

GetOrderById(p, in) == ReadCall(p, in, "getOrderById", Roles, "", TRUE)

ListOrders(p, in) == ReadCall(p, in, "listOrders", Roles, "", FALSE)

GetKitchenQueue(p, in) ==
  ReadCall(p, in, "getKitchenQueue", {"COCINA"},
           "Only COCINA role can access kitchen endpoints", FALSE)

KitchenGetOrderById(p, in) ==
  ReadCall(p, in, "kitchenGetOrderById", {"COCINA"},
           "Only COCINA role can access kitchen endpoints", TRUE)

\* OrderController.getTotal: refuses COCINA, then OrderService.calculateTotal.
GetTotal(p, in) ==
  ReadCall(p, in, "getTotal", Roles \ {"COCINA"},
           "No permission to view totals", TRUE)

\* GET /payments/order/:orderId: requirePermission(ORDER_MARK_PAID), then
\* PaymentService.getOrderPayments.
GetOrderPayments(p, in) ==
  ReadCall(p, in, "getOrderPayments",
           {r \in Roles : hasPermission(r, "ORDER_MARK_PAID")},
           "Insufficient permissions", TRUE)

\* PaymentService.getPaymentSummary: the order is looked up first, COCINA
\* refused next.
GetPaymentSummary(p, in) ==
  /\ Ready(p)
  /\ \E pr \in in.principals, o \in in.orderRefs :
       LET r0 == [Idle EXCEPT !.sink = in.sink, !.op = "getPaymentSummary",
                              !.role = pr.role, !.userId = pr.userId,
                              !.orderId = o]
       IN SetReq(p, IF ~Exists(o) THEN Fail(r0, "Order not found")
                    ELSE IF pr.role = "COCINA"
                      THEN Fail(r0, "COCINA role cannot view payment information")
                    ELSE Ok(r0))
  /\ UNCHANGED <<order, items, payments, cancelLog, sessions, nextItemId, now>>

\* ------------------------------------------------------- specifications
Reasons == { <<>>, <<" ">>, <<"x">> }

OneItem == << [quantity |-> 1, price |-> 6] >>

\* The requests of the status machine: every principal, every target status.
InStatus ==
  [ principals |-> Principals, orderRefs |-> 1 .. MaxOrders,
    newStatuses |-> Statuses, reasons |-> Reasons,
    channels |-> {"VENTANILLA"}, tables |-> {0}, itemLists |-> {OneItem},
    cash |-> {0}, amounts |-> {6},
    sink |-> {"written"}, maxItemIds |-> MaxItemIds,
    maxOrders |-> MaxOrders, maxSessions |-> MaxSessions ]

NextStatus ==
  \E p \in Procs :
    \/ CreateOrderCheck(p, InStatus)
    \/ CreateOrderCreate(p)
    \/ ChangeStatusRead(p, InStatus)
    \/ ChangeStatusUpdate(p)
    \/ CancelOrderRead(p, InStatus)
    \/ CancelOrderTx(p)
    \/ StartPreparationRead(p, InStatus)
    \/ StartPreparationUpdate(p)
    \/ MarkReadyRead(p, InStatus)
    \/ MarkReadyUpdate(p)
    \/ DeliverOrderRead(p, InStatus)
    \/ DeliverOrderTxRead(p)
    \/ DeliverOrderUpdate(p)

SpecStatus == Init /\ [][NextStatus]_vars


Cashier == {pr \in Principals : pr.role = "CAJA"}

\* The status machine next to payments: the cashier creates the order, opens
\* the drawer and takes the payment; every principal asks for every status.
InPaid ==
  [ principals |-> Principals, orderRefs |-> 1 .. MaxOrders,
    newStatuses |-> Statuses, reasons |-> { <<"x">> },
    channels |-> {"VENTANILLA"}, tables |-> {0}, itemLists |-> {OneItem},
    cash |-> {0}, amounts |-> {6},
    sink |-> {"written"}, maxItemIds |-> MaxItemIds,
    maxOrders |-> MaxOrders, maxSessions |-> MaxSessions ]

InCashier == [InPaid EXCEPT !.principals = Cashier]

NextPaid ==
  \E p \in Procs :
    \/ CreateOrderCheck(p, InCashier)
    \/ CreateOrderCreate(p)
    \/ OpenSessionRead(p, InCashier)
    \/ OpenSessionCreate(p)
    \/ CreatePaymentSession(p, InCashier)
    \/ CreatePaymentOrder(p)
    \/ CreatePaymentTotal(p)
    \/ CreatePaymentPaid(p)
    \/ CreatePaymentInsert(p)
    \/ CreatePaymentMarkPaid(p)
    \/ CreatePaymentReturn(p)
    \/ ChangeStatusRead(p, InPaid)
    \/ ChangeStatusUpdate(p)
    \/ CancelOrderRead(p, InCashier)
    \/ CancelOrderTx(p)
    \/ StartPreparationRead(p, InPaid)
    \/ StartPreparationUpdate(p)
    \/ MarkReadyRead(p, InPaid)
    \/ MarkReadyUpdate(p)

SpecPaid == Init /\ [][NextPaid]_vars

TwoItems == << [quantity |-> 1, price |-> 6], [quantity |-> 1, price |-> 6] >>

\* Payments next to item changes: the cashier's order of one or two items,
\* partial and full payments, and items added, edited and deleted.
InPay ==
  [ principals |-> Cashier, orderRefs |-> 1 .. MaxOrders,
    channels |-> {"VENTANILLA"}, tables |-> {0},
    itemLists |-> {TwoItems},
    addLists |-> { << [quantity |-> 1, price |-> 3] >> },
    itemRefs |-> {1, 2},
    patches |-> { [quantity |-> <<>>, price |-> <<0>>] },
    cash |-> {0}, amounts |-> {3, 9},
    sink |-> {"written"}, maxItemIds |-> MaxItemIds,
    maxOrders |-> MaxOrders, maxSessions |-> MaxSessions ]

InWaiter == [InPay EXCEPT !.principals = Principals \ Cashier]

NextPay ==
  \E p \in Procs :
    \/ CreateOrderCheck(p, InPay)
    \/ CreateOrderCreate(p)
    \/ OpenSessionRead(p, InPay)
    \/ OpenSessionCreate(p)
    \/ CreatePaymentSession(p, InPay)
    \/ CreatePaymentOrder(p)
    \/ CreatePaymentTotal(p)
    \/ CreatePaymentPaid(p)
    \/ CreatePaymentInsert(p)
    \/ CreatePaymentMarkPaid(p)
    \/ CreatePaymentReturn(p)
    \/ AddItemsRead(p, InPay)
    \/ WaiterAddItemsRead(p, InWaiter)
    \/ AddItemsCreate(p)
    \/ EditItemRead(p, InPay)
    \/ EditItemFind(p)
    \/ EditItemUpdate(p)
    \/ DeleteItemRead(p, InPay)
    \/ DeleteItemDelete(p)

SpecPay == Init /\ [][NextPay]_vars

Waiter == {pr \in Principals : pr.role = "MESERO"}

\* Orders taken at one table by the cashier and by the waiter, and paid.
InTable ==
  [ principals |-> Cashier, orderRefs |-> 1 .. MaxTableOrders,
    channels |-> {"MESA"}, tables |-> {0, 1}, itemLists |-> {OneItem},
    cash |-> {0}, amounts |-> {6},
    sink |-> {"written"}, maxItemIds |-> MaxItemIds,
    maxOrders |-> MaxTableOrders,
    maxSessions |-> MaxSessions ]

InTableWaiter == [InTable EXCEPT !.principals = Waiter]

NextTable ==
  \E p \in Procs :
    \/ CreateOrderCheck(p, InTable)
    \/ WaiterCreateOrderCheck(p, InTableWaiter)
    \/ CreateOrderCreate(p)
    \/ OpenSessionRead(p, InTable)
    \/ OpenSessionCreate(p)
    \/ CreatePaymentSession(p, InTable)
    \/ CreatePaymentOrder(p)
    \/ CreatePaymentTotal(p)
    \/ CreatePaymentPaid(p)
    \/ CreatePaymentInsert(p)
    \/ CreatePaymentMarkPaid(p)
    \/ CreatePaymentReturn(p)

SpecTable == Init /\ [][NextTable]_vars

\* Orders of one or two items, paid or not, whose items every principal
\* asks to delete.
InItems ==
  [ principals |-> Principals, orderRefs |-> 1 .. MaxOrders,
    channels |-> {"VENTANILLA"}, tables |-> {0},
    itemLists |-> {OneItem, TwoItems}, itemRefs |-> {1, 2},
    cash |-> {0}, amounts |-> {6},
    sink |-> {"written"}, maxItemIds |-> MaxItemIds,
    maxOrders |-> MaxOrders,
    maxSessions |-> MaxSessions ]

InItemsCashier == [InItems EXCEPT !.principals = Cashier]

NextItems ==
  \E p \in Procs :
    \/ CreateOrderCheck(p, InItemsCashier)
    \/ CreateOrderCreate(p)
    \/ OpenSessionRead(p, InItemsCashier)
    \/ OpenSessionCreate(p)
    \/ CreatePaymentSession(p, InItemsCashier)
    \/ CreatePaymentOrder(p)
    \/ CreatePaymentTotal(p)
    \/ CreatePaymentPaid(p)
    \/ CreatePaymentInsert(p)
    \/ CreatePaymentMarkPaid(p)
    \/ CreatePaymentReturn(p)
    \/ DeleteItemRead(p, InItems)
    \/ DeleteItemDelete(p)

SpecItems == Init /\ [][NextItems]_vars

\* A second cashier, next to the one of Principals.
Cashiers == Cashier \cup { [userId |-> 4, role |-> "CAJA"] }

\* The cash drawer: two cashiers and a waiter open and close sessions while
\* the first cashier takes an order and its payment.
InCash ==
  [ principals |-> Cashiers \cup Waiter, orderRefs |-> 1 .. MaxOrders,
    channels |-> {"VENTANILLA"}, tables |-> {0}, itemLists |-> {OneItem},
    sessionRefs |-> 1 .. MaxCashSessions, cash |-> {0},
    finalCash |-> {-1, 5}, amounts |-> {6},
    sink |-> {"written"}, maxItemIds |-> MaxItemIds,
    maxOrders |-> MaxOrders,
    maxSessions |-> MaxCashSessions ]

InCashOne == [InCash EXCEPT !.principals = Cashier]

NextCash ==
  \E p \in Procs :
    \/ CreateOrderCheck(p, InCashOne)
    \/ CreateOrderCreate(p)
    \/ OpenSessionRead(p, InCash)
    \/ OpenSessionCreate(p)
    \/ CloseSessionRead(p, InCash)
    \/ CloseSessionUpdate(p)
    \/ CreatePaymentSession(p, InCashOne)
    \/ CreatePaymentOrder(p)
    \/ CreatePaymentTotal(p)
    \/ CreatePaymentPaid(p)
    \/ CreatePaymentInsert(p)
    \/ CreatePaymentMarkPaid(p)
    \/ CreatePaymentReturn(p)

SpecCash == Init /\ [][NextCash]_vars

\* createPayment sent by every principal, with a zero and a full amount, on
\* an order that may be missing, cancelled or paid.
InGuard ==
  [ principals |-> Principals, orderRefs |-> 1 .. MaxOrders,
    reasons |-> { <<"x">> },
    channels |-> {"VENTANILLA"}, tables |-> {0}, itemLists |-> {OneItem},
    cash |-> {0}, amounts |-> {0, 6},
    sink |-> {"written"}, maxItemIds |-> MaxItemIds,
    maxOrders |-> MaxOrders,
    maxSessions |-> MaxSessions ]

InGuardCashier == [InGuard EXCEPT !.principals = Cashier]

NextGuard ==
  \E p \in Procs :
    \/ CreateOrderCheck(p, InGuardCashier)
    \/ CreateOrderCreate(p)
    \/ OpenSessionRead(p, InGuardCashier)
    \/ OpenSessionCreate(p)
    \/ CancelOrderRead(p, InGuardCashier)
    \/ CancelOrderTx(p)
    \/ CreatePaymentSession(p, InGuard)
    \/ CreatePaymentOrder(p)
    \/ CreatePaymentTotal(p)
    \/ CreatePaymentPaid(p)
    \/ CreatePaymentInsert(p)
    \/ CreatePaymentMarkPaid(p)
    \/ CreatePaymentReturn(p)

SpecGuard == Init /\ [][NextGuard]_vars

\* What the kitchen sees: the cashier takes an order, every principal moves
\* its status and reads it back.
InKitchen ==
  [ principals |-> Principals, orderRefs |-> 1 .. MaxOrders,
    newStatuses |-> {"PREPARACION", "LISTO"},
    channels |-> {"VENTANILLA"}, tables |-> {0}, itemLists |-> {OneItem},
    sink |-> {"written"}, maxItemIds |-> MaxItemIds,
    maxOrders |-> MaxOrders,
    maxSessions |-> MaxSessions ]

InKitchenCashier == [InKitchen EXCEPT !.principals = Cashier]

NextKitchen ==
  \E p \in Procs :
    \/ CreateOrderCheck(p, InKitchenCashier)
    \/ CreateOrderCreate(p)
    \/ ChangeStatusRead(p, InKitchen)
    \/ ChangeStatusUpdate(p)
    \/ StartPreparationRead(p, InKitchen)
    \/ StartPreparationUpdate(p)
    \/ MarkReadyRead(p, InKitchen)
    \/ MarkReadyUpdate(p)
    \/ GetOrderById(p, InKitchen)
    \/ ListOrders(p, InKitchen)
    \/ GetKitchenQueue(p, InKitchen)
    \/ KitchenGetOrderById(p, InKitchen)
    \/ GetTotal(p, InKitchen)

SpecKitchen == Init /\ [][NextKitchen]_vars

\* The bill: the cashier takes an order and collects it, every principal
\* asks for the bill.
InBill ==
  [ principals |-> Principals, orderRefs |-> 1 .. MaxOrders,
    channels |-> {"VENTANILLA"}, tables |-> {0}, itemLists |-> {OneItem},
    cash |-> {0}, amounts |-> {6},
    sink |-> {"written"}, maxItemIds |-> MaxItemIds,
    maxOrders |-> MaxOrders,
    maxSessions |-> MaxSessions ]

InBillCashier == [InBill EXCEPT !.principals = Cashier]

NextBill ==
  \E p \in Procs :
    \/ CreateOrderCheck(p, InBillCashier)
    \/ CreateOrderCreate(p)
    \/ OpenSessionRead(p, InBillCashier)
    \/ OpenSessionCreate(p)
    \/ CreatePaymentSession(p, InBillCashier)
    \/ CreatePaymentOrder(p)
    \/ CreatePaymentTotal(p)
    \/ CreatePaymentPaid(p)
    \/ CreatePaymentInsert(p)
    \/ CreatePaymentMarkPaid(p)
    \/ CreatePaymentReturn(p)
    \/ RequestBillRead(p, InBill)
    \/ WaiterRequestBillRead(p, InBill)
    \/ RequestBillUpdate(p)

SpecBill == Init /\ [][NextBill]_vars

\* Every operation that writes an audit log, with a sink that may fail:
\* each is asked for by a principal its service lets in.
InAudit ==
  [ principals |-> Cashier, orderRefs |-> 1 .. MaxOrders,
    newStatuses |-> {"PREPARACION"}, reasons |-> { <<"x">> },
    channels |-> {"VENTANILLA"}, tables |-> {0}, itemLists |-> {TwoItems},
    addLists |-> { << [quantity |-> 1, price |-> 3] >> },
    itemRefs |-> {1},
    patches |-> { [quantity |-> <<>>, price |-> <<0>>] },
    cash |-> {0}, amounts |-> {3},
    sessionRefs |-> 1 .. MaxSessions, finalCash |-> {5},
    sink |-> {"written", "failed"}, maxItemIds |-> MaxItemIds,
    maxOrders |-> MaxOrders,
    maxSessions |-> MaxSessions ]

InAuditKitchen ==
  [InAudit EXCEPT !.principals = {pr \in Principals : pr.role = "COCINA"}]

InAuditWaiter == [InAudit EXCEPT !.principals = Waiter]

\* The orders' operations come from one client, the drawer's from another.
OrderClient == CHOOSE p \in Procs : \A q \in Procs : p <= q

CashClient == CHOOSE p \in Procs : \A q \in Procs : q <= p

NextAuditOrder(p) ==
  \/ CreateOrderCheck(p, InAudit)
  \/ CreateOrderCreate(p)
  \/ ChangeStatusRead(p, InAudit)
  \/ ChangeStatusUpdate(p)
  \/ CancelOrderRead(p, InAudit)
  \/ CancelOrderTx(p)
  \/ StartPreparationRead(p, InAuditKitchen)
  \/ StartPreparationUpdate(p)
  \/ MarkReadyRead(p, InAuditKitchen)
  \/ MarkReadyUpdate(p)
  \/ DeliverOrderRead(p, InAuditWaiter)
  \/ DeliverOrderTxRead(p)
  \/ DeliverOrderUpdate(p)
  \/ AddItemsRead(p, InAudit)
  \/ AddItemsCreate(p)
  \/ EditItemRead(p, InAudit)
  \/ EditItemFind(p)
  \/ EditItemUpdate(p)
  \/ DeleteItemRead(p, InAudit)
  \/ DeleteItemDelete(p)
  \/ RequestBillRead(p, InAudit)
  \/ RequestBillUpdate(p)

NextAuditCash(p) ==
  \/ OpenSessionRead(p, InAudit)
  \/ OpenSessionCreate(p)
  \/ CloseSessionRead(p, InAudit)
  \/ CloseSessionUpdate(p)
  \/ CreatePaymentSession(p, InAudit)
  \/ CreatePaymentOrder(p)
  \/ CreatePaymentTotal(p)
  \/ CreatePaymentPaid(p)
  \/ CreatePaymentInsert(p)
  \/ CreatePaymentMarkPaid(p)
  \/ CreatePaymentReturn(p)

NextAudit == NextAuditOrder(OrderClient) \/ NextAuditCash(CashClient)

SpecAudit == Init /\ [][NextAudit]_vars

\* Every operation behind hasPermission, asked for by every principal.
InPerm ==
  [ principals |-> Principals, orderRefs |-> 1 .. MaxOrders,
    reasons |-> { <<"x">> },
    channels |-> {"VENTANILLA"}, tables |-> {0}, itemLists |-> {TwoItems},
    addLists |-> { << [quantity |-> 1, price |-> 3] >> },
    itemRefs |-> {1},
    patches |-> { [quantity |-> <<>>, price |-> <<0>>] },
    cash |-> {0}, amounts |-> {3},
    sink |-> {"written"}, maxItemIds |-> MaxItemIds,
    maxOrders |-> MaxOrders,
    maxSessions |-> MaxSessions ]

NextPerm ==
  \E p \in Procs :
    \/ CreateOrderCheck(p, InPerm)
    \/ CreateOrderCreate(p)
    \/ CancelOrderRead(p, InPerm)
    \/ CancelOrderTx(p)
    \/ AddItemsRead(p, InPerm)
    \/ AddItemsCreate(p)
    \/ EditItemRead(p, InPerm)
    \/ EditItemFind(p)
    \/ EditItemUpdate(p)
    \/ DeleteItemRead(p, InPerm)
    \/ DeleteItemDelete(p)
    \/ RequestBillRead(p, InPerm)
    \/ RequestBillUpdate(p)

SpecPerm == Init /\ [][NextPerm]_vars

\* Items good and bad: lists and patches with a quantity below 1 or a
\* price below 0 next to valid ones, from the cashier and from the waiter.
InValid ==
  [ principals |-> Cashier \cup Waiter, orderRefs |-> 1 .. MaxOrders,
    channels |-> {"VENTANILLA"}, tables |-> {0},
    itemLists |-> { OneItem, << [quantity |-> 0, price |-> 6] >>,
                    << [quantity |-> 1, price |-> -1] >> },
    addLists |-> { << [quantity |-> 1, price |-> 0] >>,
                   << [quantity |-> -1, price |-> 3] >>,
                   << [quantity |-> 2, price |-> -3] >> },
    itemRefs |-> {1, 2},
    patches |-> { [quantity |-> <<0>>, price |-> <<>>],
                  [quantity |-> <<>>, price |-> <<-1>>],
                  [quantity |-> <<2>>, price |-> <<0>>] },
    sink |-> {"written"}, maxItemIds |-> MaxItemIds,
    maxOrders |-> MaxOrders,
    maxSessions |-> MaxSessions ]

NextValid ==
  \E p \in Procs :
    \/ CreateOrderCheck(p, InValid)
    \/ WaiterCreateOrderCheck(p, InValid)
    \/ CreateOrderCreate(p)
    \/ AddItemsRead(p, InValid)
    \/ WaiterAddItemsRead(p, InValid)
    \/ AddItemsCreate(p)
    \/ EditItemRead(p, InValid)
    \/ EditItemFind(p)
    \/ EditItemUpdate(p)

SpecValid == Init /\ [][NextValid]_vars

\* Orders asked for by every principal, at a table or not, with and
\* without a table id, with no item, one item or two.
InCreate ==
  [ principals |-> Principals, orderRefs |-> 1 .. MaxTableOrders,
    channels |-> {"MESA", "VENTANILLA"}, tables |-> {0, 1},
    itemLists |-> { <<>>, OneItem, TwoItems },
    sink |-> {"written"}, maxItemIds |-> MaxItemIds,
    maxOrders |-> MaxTableOrders,
    maxSessions |-> MaxSessions ]

NextCreate ==
  \E p \in Procs :
    \/ CreateOrderCheck(p, InCreate)
    \/ CreateOrderCreate(p)

SpecCreate == Init /\ [][NextCreate]_vars

\* Who sees the payments: the cashier takes an order and a payment for it,
\* every principal reads the order and its payments.
InPayRead ==
  [ principals |-> Principals, orderRefs |-> 1 .. MaxOrders,
    channels |-> {"VENTANILLA"}, tables |-> {0}, itemLists |-> {OneItem},
    cash |-> {0}, amounts |-> {3},
    sink |-> {"written"}, maxItemIds |-> MaxItemIds,
    maxOrders |-> MaxOrders,
    maxSessions |-> MaxSessions ]

InPayReadCashier == [InPayRead EXCEPT !.principals = Cashier]

NextPayRead ==
  \E p \in Procs :
    \/ CreateOrderCheck(p, InPayReadCashier)
    \/ CreateOrderCreate(p)
    \/ OpenSessionRead(p, InPayReadCashier)
    \/ OpenSessionCreate(p)
    \/ CreatePaymentSession(p, InPayReadCashier)
    \/ CreatePaymentOrder(p)
    \/ CreatePaymentTotal(p)
    \/ CreatePaymentPaid(p)
    \/ CreatePaymentInsert(p)
    \/ CreatePaymentMarkPaid(p)
    \/ CreatePaymentReturn(p)
    \/ GetOrderById(p, InPayRead)
    \/ KitchenGetOrderById(p, InPayRead)
    \/ GetOrderPayments(p, InPayRead)
    \/ GetPaymentSummary(p, InPayRead)

SpecPayRead == Init /\ [][NextPayRead]_vars

\* Two orders, each worked on by a client of its own: every operation on an
\* order, by the cashier, with the drawer open or not.
MaxIsoOrders == 2

MaxIsoItemIds == 5

InIso ==
  [ principals |-> Cashier, orderRefs |-> {OrderClient},
    newStatuses |-> {"PREPARACION"}, reasons |-> { <<"x">> },
    channels |-> {"VENTANILLA"}, tables |-> {0}, itemLists |-> {TwoItems},
    addLists |-> { << [quantity |-> 1, price |-> 3] >> },
    itemRefs |-> {1},
    patches |-> { [quantity |-> <<>>, price |-> <<0>>] },
    cash |-> {0}, amounts |-> {12},
    sink |-> {"written"}, maxItemIds |-> MaxIsoItemIds,
    maxOrders |-> MaxIsoOrders, maxSessions |-> MaxCashSessions ]

InIsoOther == [InIso EXCEPT !.orderRefs = {CashClient}]

\* The operations on an order's status, items and bill, asked for by
\* client p.
NextIsoOrder(p, in) ==
  \/ ChangeStatusRead(p, in)
  \/ ChangeStatusUpdate(p)
  \/ CancelOrderRead(p, in)
  \/ CancelOrderTx(p)
  \/ AddItemsRead(p, in)
  \/ AddItemsCreate(p)
  \/ EditItemRead(p, in)
  \/ EditItemFind(p)
  \/ EditItemUpdate(p)
  \/ DeleteItemRead(p, in)
  \/ DeleteItemDelete(p)
  \/ RequestBillRead(p, in)
  \/ RequestBillUpdate(p)

\* createPayment, asked for by client p.
NextIsoPay(p, in) ==
  \/ CreatePaymentSession(p, in)
  \/ CreatePaymentOrder(p)
  \/ CreatePaymentTotal(p)
  \/ CreatePaymentPaid(p)
  \/ CreatePaymentInsert(p)
  \/ CreatePaymentMarkPaid(p)
  \/ CreatePaymentReturn(p)

NextIso ==
  \/ CreateOrderCheck(OrderClient, InIso)
  \/ CreateOrderCreate(OrderClient)
  \/ OpenSessionRead(CashClient, InIso)
  \/ OpenSessionCreate(CashClient)
  \/ NextIsoOrder(OrderClient, InIso)
  \/ NextIsoPay(OrderClient, InIso)
  \/ CancelOrderRead(CashClient, InIsoOther)
  \/ CancelOrderTx(CashClient)
  \/ NextIsoPay(CashClient, InIsoOther)

SpecIso == Init /\ [][NextIso]_vars

\* The status changes of one order asked for together: the cashier's, the
\* kitchen's and the waiter's.
InRace ==
  [ principals |-> Cashier, orderRefs |-> 1 .. MaxOrders,
    newStatuses |-> {"PREPARACION", "LISTO"}, reasons |-> { <<"x">> },
    channels |-> {"VENTANILLA"}, tables |-> {0}, itemLists |-> {OneItem},
    sink |-> {"written"}, maxItemIds |-> MaxItemIds,
    maxOrders |-> MaxOrders, maxSessions |-> MaxSessions ]

NextRace ==
  \E p \in Procs :
    \/ CreateOrderCheck(p, InRace)
    \/ CreateOrderCreate(p)
    \/ ChangeStatusRead(p, InRace)
    \/ ChangeStatusUpdate(p)
    \/ CancelOrderRead(p, InRace)
    \/ CancelOrderTx(p)
    \/ StartPreparationRead(p, [InRace EXCEPT !.principals = Principals \ Cashier])
    \/ StartPreparationUpdate(p)
    \/ MarkReadyRead(p, [InRace EXCEPT !.principals = Principals \ Cashier])
    \/ MarkReadyUpdate(p)
    \/ DeliverOrderRead(p, [InRace EXCEPT !.principals = Waiter])
    \/ DeliverOrderTxRead(p)
    \/ DeliverOrderUpdate(p)

SpecRace == Init /\ [][NextRace]_vars

\* The next step of the request worker p is running: the continuation of
\* the await it is at.
Continue(p) == ~Ready(p) /\ NextRace /\ req'[p] # req[p]

\* The database answers every query and the event loop resumes every
\* request whose await has been answered.
SpecRaceFair == SpecRace /\ \A p \in Procs : WF_vars(Continue(p))

\* Payments of one order that fall short of its total, meet it, and exceed
\* it by less than the tolerance, by the tolerance, and by more.
InTol ==
  [ principals |-> Cashier, orderRefs |-> 1 .. MaxOrders,
    channels |-> {"VENTANILLA"}, tables |-> {0}, itemLists |-> {OneItem},
    cash |-> {0}, amounts |-> {3, 4, 7},
    sink |-> {"written"}, maxItemIds |-> MaxItemIds,
    maxOrders |-> MaxOrders, maxSessions |-> MaxSessions ]

NextTol ==
  \/ CreateOrderCheck(OrderClient, InTol)
  \/ CreateOrderCreate(OrderClient)
  \/ OpenSessionRead(CashClient, InTol)
  \/ OpenSessionCreate(CashClient)
  \/ \E p \in Procs : NextIsoPay(p, InTol)

SpecTol == Init /\ [][NextTol]_vars

\* The kitchen's queue while orders are taken, advanced, cancelled and paid.
InQueue ==
  [ principals |-> Cashier, orderRefs |-> 1 .. MaxIsoOrders,
    newStatuses |-> {"PREPARACION", "LISTO"}, reasons |-> { <<"x">> },
    channels |-> {"VENTANILLA"}, tables |-> {0}, itemLists |-> {OneItem},
    cash |-> {0}, amounts |-> {6},
    sink |-> {"written"}, maxItemIds |-> MaxItemIds,
    maxOrders |-> MaxIsoOrders, maxSessions |-> MaxSessions ]

NextQueue ==
  \/ CreateOrderCheck(OrderClient, InQueue)
  \/ CreateOrderCreate(OrderClient)
  \/ ChangeStatusRead(OrderClient, InQueue)
  \/ ChangeStatusUpdate(OrderClient)
  \/ CancelOrderRead(OrderClient, InQueue)
  \/ CancelOrderTx(OrderClient)
  \/ OpenSessionRead(CashClient, InQueue)
  \/ OpenSessionCreate(CashClient)
  \/ NextIsoPay(CashClient, InQueue)
  \/ \E p \in Procs : GetKitchenQueue(p, [InQueue EXCEPT !.principals = Principals])

SpecQueue == Init /\ [][NextQueue]_vars

\* One order taken through its statuses by the kitchen and the waiter, or by
\* changeStatus, and paid on the way.
InRoles == [InQueue EXCEPT !.orderRefs = 1 .. MaxOrders, !.maxOrders = MaxOrders]

NextRoles ==
  \/ CreateOrderCheck(OrderClient, InRoles)
  \/ CreateOrderCreate(OrderClient)
  \/ OpenSessionRead(CashClient, InRoles)
  \/ OpenSessionCreate(CashClient)
  \/ NextIsoPay(CashClient, InRoles)
  \/ ChangeStatusRead(OrderClient, InRoles)
  \/ ChangeStatusUpdate(OrderClient)
  \/ \E p \in Procs :
       \/ StartPreparationRead(p, [InRoles EXCEPT !.principals = Principals])
       \/ StartPreparationUpdate(p)
       \/ MarkReadyRead(p, [InRoles EXCEPT !.principals = Principals])
       \/ MarkReadyUpdate(p)
       \/ DeliverOrderRead(p, [InRoles EXCEPT !.principals = Principals])
       \/ DeliverOrderTxRead(p)
       \/ DeliverOrderUpdate(p)

SpecRoles == Init /\ [][NextRoles]_vars

\* Every writing operation on one order and one cash session, the order's
\* operations asked for two at a time: refusals by role, by state and by a
\* write that finds its row changed.
InErr ==
  [InAudit EXCEPT !.sink = {"written"}, !.reasons = { <<>>, <<"x">> }]

NextErr ==
  \/ CreateOrderCheck(OrderClient, [InErr EXCEPT !.principals = Principals])
  \/ CreateOrderCreate(OrderClient)
  \/ \E p \in Procs : NextIsoOrder(p, InErr)
  \/ OpenSessionRead(CashClient, [InErr EXCEPT !.principals = Principals])
  \/ OpenSessionCreate(CashClient)
  \/ CloseSessionRead(CashClient, InErr)
  \/ CloseSessionUpdate(CashClient)
  \/ NextIsoPay(CashClient, InErr)

SpecErr == Init /\ [][NextErr]_vars

\* ================================================================= claims

\* The order a request read, rebuilt from what the request kept of it.
AsRead(r) == [status |-> r.rdStatus, paidAt |-> r.rdPaidAt]

\* Worker p ended a request in this step.
Ends(p) == req'[p] # req[p] /\ req'[p].pc = "done"

\* A finished changeStatus request that found its order.
ChangeStatusDone(r) ==
  r.op = "changeStatus" /\ r.pc = "done" /\ r.rdStatus # "NA"

\* C1: two changeStatus calls on the same order that read the same status,
\* both passed the checks and target different statuses end with exactly one
\* success and one ConcurrencyError.
C1_OneWinner ==
  \A p, q \in Procs :
    ( /\ p # q
      /\ ChangeStatusDone(req[p]) /\ ChangeStatusDone(req[q])
      /\ req[p].orderId = req[q].orderId
      /\ req[p].rdStatus = req[q].rdStatus
      /\ req[p].newStatus # req[q].newStatus
      /\ ChangeStatusCheck(AsRead(req[p]), req[p].role, req[p].newStatus) = "ok"
      /\ ChangeStatusCheck(AsRead(req[q]), req[q].role, req[q].newStatus) = "ok" )
    => \/ req[p].result = "ok" /\ ErrorKind(req[q].result) = "ConcurrencyError"
       \/ req[q].result = "ok" /\ ErrorKind(req[p].result) = "ConcurrencyError"

\* The pairs (from, to) section 4.3 of the design lets each role perform.
Authorized(role, from, to) ==
  CASE role = "CAJA" -> to \in VALID_STATUS_TRANSITIONS[from]
    [] role = "MESERO" -> <<from, to>> = <<"LISTO", "ENTREGADO">>
    [] role = "COCINA" -> <<from, to>> \in { <<"RECIBIDO", "PREPARACION">>,
                                             <<"PREPARACION", "LISTO">> }

\* What the design says changeStatus answers on the edge (from, to).
EdgeAnswer(r) ==
  LET valid == r.newStatus \in VALID_STATUS_TRANSITIONS[r.rdStatus]
      auth == Authorized(r.role, r.rdStatus, r.newStatus)
  IN /\ r.result = "ok" => valid /\ auth
     /\ ~valid => ErrorKind(r.result) = "ValidationError"
     /\ (valid /\ ~auth) => ErrorKind(r.result) = "ForbiddenError"

C3_OnlyTableEdges ==
  [][ \A o \in DOMAIN order :
        order'[o].status # order[o].status =>
          order'[o].status \in VALID_STATUS_TRANSITIONS[order[o].status] ]_vars

\* C4: the payments of an order never sum to more than its item total plus
\* the tolerance.
C4_NoOverpayment ==
  \A o \in DOMAIN order :
    calculatePaidTotal(o) <= calculateOrderTotal(o) + Tolerance

\* C5: createPayment calls on the same order behave as if run one after
\* the other: no insert takes the payments past the order total plus the
\* tolerance, and paidAt is written only while it is still null.
C5_PaymentsSerialized ==
  [][ \A o \in DOMAIN order :
        /\ payments' # payments =>
             SumAmounts(payments', o) <= SumItems(items'[o]) + Tolerance
        /\ order'[o].paidAt # order[o].paidAt => order[o].paidAt = NULL ]_vars

\* C6: paidAt is written only by createPayment's mark-paid step, only while
\* it is null, and only when the order's payments reach its total minus the
\* tolerance; once set it keeps its value.
C6_PaidAtOnce ==
  [][ \A o \in DOMAIN order :
        /\ order[o].paidAt # NULL => order'[o].paidAt = order[o].paidAt
        /\ order'[o].paidAt # order[o].paidAt =>
             /\ \E p \in Procs : /\ req[p].op = "createPayment"
                                 /\ req[p].pc = "cp_mark"
                                 /\ req[p].orderId = o /\ req'[p] # req[p]
             /\ SumAmounts(payments', o) >= SumItems(items'[o]) - Tolerance
    ]_vars

\* C7: the items of an order whose paidAt is set never change.
C7_PaidItemsFrozen ==
  [][ \A o \in DOMAIN order :
        order[o].paidAt # NULL => items'[o] = items[o] ]_vars

\* C8: the only status change ever applied to an order whose paidAt is set
\* is a move to ENTREGADO.
C8_PaidOnlyDelivered ==
  [][ \A o \in DOMAIN order :
        (order[o].paidAt # NULL /\ order'[o].status # order[o].status) =>
          order'[o].status = "ENTREGADO" ]_vars

\* C9: a cancelOrder that found its order succeeds only with a reason that
\* is non-empty after trimming, on an unpaid order whose status is RECIBIDO,
\* PREPARACION or LISTO; a paid, cancelled or delivered order given a reason
\* fails with StateError, an empty reason on an order open to cancellation
\* fails with ValidationError, and a call wrong on both counts fails with
\* one of the two.
C9_CancelGuards ==
  \A p \in Procs :
    (req[p].op = "cancelOrder" /\ req[p].pc = "done" /\ req[p].rdStatus # "NA") =>
      LET r == req[p]
          open == r.rdPaidAt = NULL
                  /\ r.rdStatus \in {"RECIBIDO", "PREPARACION", "LISTO"}
          given == Len(trim(r.reason)) > 0
      IN /\ r.result = "ok" => open /\ given
         /\ (~open /\ given) => ErrorKind(r.result) = "StateError"
         /\ (open /\ ~given) => ErrorKind(r.result) = "ValidationError"
         /\ (~open /\ ~given) =>
              ErrorKind(r.result) \in {"StateError", "ValidationError"}

\* C10: the transaction of cancelOrder either sets the status to CANCELADO
\* and records the cancel_log row of its reason and actor, or changes
\* neither; and no other step writes a cancel_log row.
C10_CancelAtomic ==
  [][ /\ \A p \in Procs :
           (req[p].pc = "co_tx" /\ req'[p] # req[p]) =>
             LET o == req[p].orderId
                 row == [orderId |-> o, reason |-> req[p].reason,
                         userId |-> req[p].userId]
             IN \/ /\ req'[p].result = "ok"
                   /\ order'[o].status = "CANCELADO"
                   /\ row \in cancelLog' /\ row \notin cancelLog
                \/ /\ req'[p].result # "ok"
                   /\ order' = order /\ cancelLog' = cancelLog
      /\ cancelLog' # cancelLog =>
           \E p \in Procs : req[p].pc = "co_tx" /\ req'[p] # req[p] ]_vars

\* C10 witness: a cancelOrder committed, the order is CANCELADO and has its
\* cancel_log row.
C10_Witness ==
  \E p \in Procs :
    /\ req[p].op = "cancelOrder" /\ req[p].pc = "done" /\ req[p].result = "ok"
    /\ order[req[p].orderId].status = "CANCELADO"
    /\ [orderId |-> req[p].orderId, reason |-> req[p].reason,
        userId |-> req[p].userId] \in cancelLog

\* The orders of table t that are neither ENTREGADO nor CANCELADO.
OpenOrders(t) ==
  {o \in DOMAIN order : order[o].tableId = t
                          /\ order[o].status \notin {"ENTREGADO", "CANCELADO"}}

\* C11: no table ever has two orders that are neither ENTREGADO nor
\* CANCELADO.
C11_OneOpenOrderPerTable ==
  \A o \in DOMAIN order :
    order[o].tableId # 0 => Cardinality(OpenOrders(order[o].tableId)) <= 1

\* C12: every existing order has at least one item.
C12_NeverEmpty == \A o \in DOMAIN order : items[o] # {}

\* Worker p starts a request of operation op in this step.
Starts(p, op) == Ready(p) /\ req'[p] # req[p] /\ req'[p].op = op

\* Worker p starts a deleteItem on the only item of an order.
DeletesOnlyItem(p) ==
  /\ Starts(p, "deleteItem")
  /\ Exists(req'[p].orderId)
  /\ items[req'[p].orderId] = {it \in items[req'[p].orderId] :
                                  it.id = req'[p].itemId}
  /\ items[req'[p].orderId] # {}

\* C13 as stated: a deleteItem on the only item of an order fails with
\* StateError whatever the caller's role, and deletes nothing.
C13_LastItemStateError ==
  [][ \A p \in Procs :
        DeletesOnlyItem(p) =>
          /\ req'[p].pc = "done"
          /\ ErrorKind(req'[p].result) = "StateError"
          /\ items' = items ]_vars

\* C13 amended: a deleteItem on the only item of an order deletes nothing;
\* it fails with ForbiddenError for a caller without the delete-items
\* permission and with StateError for a caller that has it.
C13_LastItemKept ==
  [][ \A p \in Procs :
        DeletesOnlyItem(p) =>
          /\ req'[p].pc = "done"
          /\ ErrorKind(req'[p].result) =
               IF hasPermission(req'[p].role, "ORDER_DELETE_ITEMS")
                 THEN "StateError" ELSE "ForbiddenError"
          /\ items' = items ]_vars

\* C13 witness: the cashier was refused the deletion of an unpaid order's
\* only item, which is still there.
C13_Witness ==
  \E p \in Procs :
    /\ req[p].op = "deleteItem" /\ req[p].pc = "done" /\ req[p].role = "CAJA"
    /\ req[p].result = "Cannot delete the last item"
    /\ \E it \in items[req[p].orderId] :
         it.id = req[p].itemId /\ items[req[p].orderId] = {it}

\* C14: no user ever has two cash sessions with closedAt null.
C14_OneActiveSessionPerUser ==
  \A s, t \in DOMAIN sessions :
    ( /\ sessions[s].userId = sessions[t].userId
      /\ sessions[s].closedAt = NULL /\ sessions[t].closedAt = NULL ) => s = t

\* C15: a closeSession on a session that is missing, owned by someone
\* else, already closed, or given a negative finalCash fails and changes no
\* session; and closedAt and finalCash of a session are written only while
\* its closedAt is null.
C15_CloseOnce ==
  [][ /\ \A p \in Procs :
           ( /\ Starts(p, "closeSession")
             /\ \/ req'[p].sessionId \notin DOMAIN sessions
                \/ sessions[req'[p].sessionId].userId # req'[p].userId
                \/ sessions[req'[p].sessionId].closedAt # NULL
                \/ req'[p].cash < 0 )
           => (req'[p].pc = "done" /\ req'[p].result # "ok"
               /\ sessions' = sessions)
      /\ \A s \in DOMAIN sessions :
           ( \/ sessions'[s].closedAt # sessions[s].closedAt
             \/ sessions'[s].finalCash # sessions[s].finalCash )
           => sessions[s].closedAt = NULL ]_vars

\* C16: a payment is inserted only with a cash session whose closedAt is
\* null at the insert, and a cashier's createPayment started while no
\* session is active fails with StateError.
C16_PaymentInActiveSession ==
  [][ /\ Len(payments') > Len(payments) =>
           LET s == payments'[Len(payments')].cashSessionId
           IN s \in DOMAIN sessions /\ sessions[s].closedAt = NULL
      /\ \A p \in Procs :
           ( /\ Starts(p, "createPayment")
             /\ req'[p].role = "CAJA"
             /\ ActiveSessions = {} )
           => ErrorKind(req'[p].result) = "StateError" ]_vars

\* C17: a createPayment sent by anyone but a cashier fails at once; one
\* that reads a missing, cancelled or paid order (a paid one with 'already
\* paid'), or carries an amount <= 0, fails at that read; and a createPayment
\* that fails does so before its insert, leaving payments and orders as
\* they were.
C17_PaymentGuards ==
  [][ \A p \in Procs :
        /\ (Starts(p, "createPayment") /\ req'[p].role # "CAJA")
             => (req'[p].pc = "done" /\ req'[p].result # "ok")
        /\ (req[p].pc = "cp_order" /\ req'[p] # req[p]) =>
             LET o == req[p].orderId
             IN /\ ( \/ ~Exists(o)
                     \/ order[o].status = "CANCELADO"
                     \/ order[o].paidAt # NULL
                     \/ req[p].amount <= 0 )
                   => (req'[p].pc = "done" /\ req'[p].result # "ok")
                /\ ( /\ Exists(o) /\ order[o].status # "CANCELADO"
                     /\ order[o].paidAt # NULL )
                   => req'[p].result = "Order is already paid"
        /\ ( /\ Ends(p) /\ req'[p].op = "createPayment"
             /\ req'[p].result # "ok" )
           => /\ req[p].pc \in {"idle", "done", "cp_order", "cp_paid"}
              /\ payments' = payments /\ order' = order ]_vars

\* C17 witness: a second createPayment on a fully paid order was refused
\* with 'already paid' and the order still has its one payment.
C17_Witness ==
  \E p \in Procs :
    /\ req[p].op = "createPayment" /\ req[p].pc = "done"
    /\ req[p].result = "Order is already paid"
    /\ order[req[p].orderId].paidAt # NULL
    /\ calculatePaidTotal(req[p].orderId) = calculateOrderTotal(req[p].orderId)

\* The item stores that differ from its in item prices only.
Repriced(its) ==
  { [o \in DOMAIN its |-> {[it EXCEPT !.price = f[it.id]] : it \in its[o]}] :
      f \in [1 .. MaxItemIds -> 0 .. MaxPrice] }

\* C18: whatever a COCINA caller is answered on success is the same on
\* every store that differs in item prices only, and getTotal refuses
\* COCINA with ForbiddenError.
C18_KitchenSeesNoPrice ==
  [][ \A p \in Procs :
        (Ends(p) /\ req'[p].role = "COCINA") =>
          /\ req'[p].result = "ok" =>
               \A its \in Repriced(items') :
                 Response(req'[p], order', its, payments')
                   = Response(req'[p], order', items', payments')
          /\ req'[p].op = "getTotal" =>
               ErrorKind(req'[p].result) = "ForbiddenError" ]_vars

RequestBillOp == {"requestBill", "waiterRequestBill"}

\* The caller of the requestBill that process p starts in this step may
\* ask for the bill of an order that exists.
BillAsked(p) ==
  /\ \E op \in RequestBillOp : Starts(p, op)
  /\ Exists(req'[p].orderId)
  /\ req'[p].op = "requestBill" => hasPermission(req'[p].role, "ORDER_REQUEST_BILL")
  /\ req'[p].op = "waiterRequestBill" => req'[p].role = "MESERO"

\* C19: a requestBill that finds its order unpaid goes on without an error,
\* whether or not the bill was requested before, and its write leaves
\* the orders as one call leaves them: requestedBill true, all else as it
\* was; a requestBill that finds its order paid fails and changes nothing.
C19_RequestBillIdempotent ==
  [][ \A p \in Procs :
        /\ (BillAsked(p) /\ order[req'[p].orderId].paidAt = NULL) =>
              req'[p].pc = "rb_update"
        /\ (BillAsked(p) /\ order[req'[p].orderId].paidAt # NULL) =>
              /\ req'[p].result = "Order is already paid"
              /\ order' = order
        /\ (At(p, "rb_update") /\ req'[p] # req[p]) =>
              /\ req'[p].pc = "done" /\ req'[p].result = "ok"
              /\ order'[req[p].orderId].requestedBill
              /\ order' = [order EXCEPT ![req[p].orderId].requestedBill = TRUE]
              /\ order[req[p].orderId].requestedBill => order' = order ]_vars

\* Both processes have asked for the bill of the same unpaid order and both
\* were answered ok.
C19_Witness ==
  \E p, q \in Procs :
    /\ p # q
    /\ req[p].op \in RequestBillOp /\ req[q].op \in RequestBillOp
    /\ req[p].pc = "done" /\ req[q].pc = "done"
    /\ req[p].result = "ok" /\ req[q].result = "ok"
    /\ req[p].orderId = req[q].orderId
    /\ order[req[p].orderId].requestedBill
    /\ order[req[p].orderId].paidAt = NULL

\* A request without what the audit sink did with its log.
Unaudited(r) == [r EXCEPT !.audited = "none", !.audit = NoRow]

\* In this step process p's request handed a log to the audit sink.
AuditStep(p) ==
  /\ req'[p] # req[p]
  /\ req[p].pc \notin {"idle", "done", "cp_final"}
  /\ req'[p].audited # "none"

\* C20: a step whose audit write fails ends its request without an error,
\* and the same step with the audit write succeeding is possible from the
\* same state and leaves the same orders, items, payments, cancel logs,
\* sessions and requests, the sink's outcome apart.
C20_AuditFailureHarmless ==
  [][ \A p \in Procs :
        (AuditStep(p) /\ req'[p].audited = "failed") =>
          /\ req'[p].pc = "done" => req'[p].result = "ok"
          /\ \E t \in { [ order |-> order', items |-> items',
                           payments |-> payments', cancelLog |-> cancelLog',
                           sessions |-> sessions', nextItemId |-> nextItemId',
                           now |-> now',
                           req |-> [req' EXCEPT ![p] = Unaudited(@)] ] } :
               ENABLED ( /\ NextAudit
                         /\ req'[p].audited = "written"
                         /\ order' = t.order /\ items' = t.items
                         /\ payments' = t.payments
                         /\ cancelLog' = t.cancelLog
                         /\ sessions' = t.sessions
                         /\ nextItemId' = t.nextItemId /\ now' = t.now
                         /\ [req' EXCEPT ![p] = Unaudited(@)] = t.req ) ]_vars

\* A request has ended ok after its audit write failed, and the order it
\* wrote to is in the store.
C20_Witness ==
  \E p \in Procs :
    /\ req[p].pc = "done" /\ req[p].result = "ok"
    /\ req[p].audited = "failed"
    /\ req[p].op \in {"createOrder", "changeStatus", "cancelOrder",
                       "requestBill", "deleteItem"}
    /\ Exists(req[p].orderId)

\* The matrix as the roles are described: the cashier holds everything, the
\* waiter five permissions, the kitchen its two status moves.
DescribedMatrix ==
  [ CAJA |-> Permissions,
    MESERO |-> { "ORDER_CREATE", "ORDER_ADD_ITEMS", "ORDER_REQUEST_BILL",
                 "STATUS_LISTO_TO_ENTREGADO", "VIEW_PRICES" },
    COCINA |-> { "STATUS_RECIBIDO_TO_PREPARACION",
                 "STATUS_PREPARACION_TO_LISTO" } ]

\* The permission each operation asks hasPermission for.
PermissionOf ==
  [ createOrder |-> "ORDER_CREATE", addItems |-> "ORDER_ADD_ITEMS",
    editItem |-> "ORDER_EDIT_ITEMS", deleteItem |-> "ORDER_DELETE_ITEMS",
    cancelOrder |-> "ORDER_CANCEL", requestBill |-> "ORDER_REQUEST_BILL" ]

\* C21: in every state hasPermission answers by the described matrix, for
\* every role and permission, and every finished request of an operation
\* behind it was refused with ForbiddenError exactly when the matrix
\* withholds the operation's permission from the caller's role.
C21_ExactMatrix ==
  /\ \A role \in Roles, permission \in Permissions :
       hasPermission(role, permission) <=> permission \in DescribedMatrix[role]
  /\ \A p \in Procs :
       (req[p].pc = "done" /\ req[p].op \in DOMAIN PermissionOf) =>
         ( ErrorKind(req[p].result) = "ForbiddenError"
             <=> PermissionOf[req[p].op] \notin DescribedMatrix[req[p].role] )

\* The kitchen was refused a bill request and the waiter was granted one.
C21_Witness ==
  \E p, q \in Procs :
    /\ req[p].pc = "done" /\ req[p].op = "requestBill"
    /\ req[p].role = "COCINA"
    /\ req[p].result = "No permission to request bill"
    /\ req[q].pc = "done" /\ req[q].op = "requestBill"
    /\ req[q].role = "MESERO" /\ req[q].result = "ok"

\* The request r carries an item with quantity < 1 or price < 0, or a
\* patch to such a quantity or price.
CarriesBadItem(r) ==
  \/ \E k \in DOMAIN r.newItems :
       r.newItems[k].quantity < 1 \/ r.newItems[k].price < 0
  \/ r.patch.quantity # <<>> /\ r.patch.quantity[1] < 1
  \/ r.patch.price # <<>> /\ r.patch.price[1] < 0

\* The caller of r holds what its operation asks for.
MayWriteItems(r) ==
  CASE r.op = "createOrder" -> hasPermission(r.role, "ORDER_CREATE")
    [] r.op = "addItems" -> hasPermission(r.role, "ORDER_ADD_ITEMS")
    [] r.op = "editItem" -> hasPermission(r.role, "ORDER_EDIT_ITEMS")
    [] OTHER -> r.role = "MESERO"

C23_CreateOrder ==
  [][ \A p \in Procs :
        /\ Starts(p, "createOrder") =>
             LET r == req'[p]
             IN /\ ~hasPermission(r.role, "ORDER_CREATE") =>
                     ErrorKind(r.result) = "ForbiddenError"
                /\ ( /\ hasPermission(r.role, "ORDER_CREATE")
                     /\ (r.channel = "MESA" /\ r.tableId = 0) \/ r.newItems = <<>> )
                     => ErrorKind(r.result) = "ValidationError"
                /\ r.pc = "done" => r.result # "ok"
        /\ ( /\ req[p].op = "createOrder" /\ req'[p] # req[p]
             /\ req'[p].pc = "done" /\ req'[p].result # "ok" )
             => order' = order /\ items' = items
        /\ ( /\ req[p].op = "createOrder" /\ req'[p] # req[p]
             /\ req'[p].pc = "done" /\ req'[p].result = "ok" )
             => LET n == Len(order) + 1
                    its == req[p].newItems
                IN /\ Len(order') = n /\ SubSeq(order', 1, n - 1) = order
                   /\ Len(items') = n /\ SubSeq(items', 1, n - 1) = items
                   /\ req'[p].orderId = n
                   /\ order'[n].status = "RECIBIDO"
                   /\ order'[n].paidAt = NULL
                   /\ order'[n].requestedBill = FALSE
                   /\ order'[n].channel = req[p].channel
                   /\ order'[n].tableId = req[p].tableId
                   /\ its # <<>>
                   /\ Cardinality(items'[n]) = Len(its)
                   /\ \A k \in DOMAIN its : \E it \in items'[n] :
                        /\ it.id = nextItemId + k - 1
                        /\ it.quantity = its[k].quantity
                        /\ it.price = its[k].price ]_vars

\* The waiter's order of two items for table 1 is stored.
C23_Witness ==
  \E p \in Procs :
    /\ req[p].pc = "done" /\ req[p].op = "createOrder"
    /\ req[p].result = "ok" /\ req[p].role = "MESERO"
    /\ Exists(req[p].orderId)
    /\ order[req[p].orderId].channel = "MESA"
    /\ order[req[p].orderId].tableId = 1
    /\ Cardinality(items[req[p].orderId]) = 2

\* C24: an editItem or deleteItem that a permitted caller starts on an
\* order that is paid or CANCELADO is refused with StateError and leaves
\* the items as they were.
C24_ItemGuards ==
  [][ \A p \in Procs :
        ( /\ Starts(p, "editItem") \/ Starts(p, "deleteItem")
          /\ MayWriteItems([req'[p] EXCEPT !.op = "editItem"])
          /\ Exists(req'[p].orderId)
          /\ \/ order[req'[p].orderId].paidAt # NULL
             \/ order[req'[p].orderId].status = "CANCELADO" )
        => /\ ErrorKind(req'[p].result) = "StateError"
           /\ items' = items ]_vars

\* The payment stores that differ from pays in its rows' amounts, and the
\* store without any payment.
Reamounted(pays) ==
  { [k \in DOMAIN pays |-> [pays[k] EXCEPT !.amount = f[k]]] :
      f \in [DOMAIN pays -> 1 .. 2] } \cup { <<>> }

\* C25: getOrderPayments succeeds for CAJA only, getPaymentSummary for CAJA
\* and MESERO only, COCINA being refused with ForbiddenError (NotFoundError
\* when the order does not exist), and whatever a COCINA caller is
\* answered on success is the same on every store that differs in
\* payments only.
C25_PaymentsRoleGated ==
  [][ \A p \in Procs :
        Ends(p) =>
          LET r == req'[p]
          IN /\ (r.op = "getOrderPayments" /\ r.result = "ok") => r.role = "CAJA"
             /\ (r.op = "getPaymentSummary" /\ r.result = "ok") =>
                  r.role \in {"CAJA", "MESERO"}
             /\ (r.op = "getPaymentSummary" /\ r.role = "COCINA") =>
                  ErrorKind(r.result) =
                    IF Exists(r.orderId) THEN "ForbiddenError" ELSE "NotFoundError"
             /\ (r.role = "COCINA" /\ r.result = "ok") =>
                  \A pays \in Reamounted(payments') :
                    Response(r, order', items', pays)
                      = Response(r, order', items', payments') ]_vars

\* The operations on an order the design lists as free of contention.
OrderOps ==
  { "changeStatus", "cancelOrder", "addItems", "editItem", "deleteItem",
    "requestBill", "createPayment" }

\* What the stores hold of order o: its row, items, payments and
\* cancellation record.
OrderSlice(o) ==
  [ row |-> IF Exists(o) THEN <<order[o]>> ELSE <<>>,
    items |-> IF o \in DOMAIN items THEN items[o] ELSE {},
    payments |-> { <<k, payments[k]>> :
                     k \in {j \in DOMAIN payments : payments[j].orderId = o} },
    cancel |-> {c \in cancelLog : c.orderId = o} ]

\* What a step of worker p on order o comes to: what the request holds
\* after it and what the stores hold of o, the clock's readings apart.
Observed(p, o) ==
  [ pc |-> req[p].pc, result |-> req[p].result,
    rdStatus |-> req[p].rdStatus, rdPaid |-> req[p].rdPaidAt # NULL,
    orderTotal |-> req[p].orderTotal, paidTotal |-> req[p].paidTotal,
    isPaid |-> req[p].isPaid, sessionId |-> req[p].sessionId,
    audit |-> req[p].audit.action,
    status |-> IF Exists(o) THEN order[o].status ELSE "NA",
    paidAt |-> Exists(o) /\ order[o].paidAt # NULL,
    requestedBill |-> Exists(o) /\ order[o].requestedBill,
    total |-> IF Exists(o) THEN calculateOrderTotal(o) ELSE 0,
    paid |-> calculatePaidTotal(o),
    cancelled |-> OrderSlice(o).cancel # {} ]

\* The values of each observation the two-order specification can show.
ObservedValues ==
  [ pc |-> { "done", "cs_update", "co_tx", "ai_create", "ei_find",
             "ei_update", "di_delete", "rb_update", "cp_order", "cp_total",
             "cp_paid", "cp_insert", "cp_mark", "cp_final" },
    result |-> { "none", "ok", "Order not found", "Invalid status transition",
                 "Cannot change status of paid order",
                 "Cannot cancel paid order", "Order is already cancelled",
                 "Unique constraint failed", "Cannot modify paid order",
                 "Cannot add items to cancelled order",
                 "Item not found in this order",
                 "Cannot delete the last item", "Record not found",
                 "No active cash session", "Order is already paid",
                 "Cannot create payment for cancelled order",
                 "Payment amount exceeds order total" },
    rdStatus |-> Statuses \cup {"NA"}, rdPaid |-> BOOLEAN,
    orderTotal |-> {3 * k : k \in 0 .. 2 * MaxIsoItemIds},
    paidTotal |-> {12 * k : k \in 0 .. MaxIsoItemIds \div 2},
    isPaid |-> BOOLEAN, sessionId |-> 0 .. MaxCashSessions,
    audit |-> { "NONE", "STATUS_CHANGE", "CANCEL", "UPDATE", "DELETE",
                "OTHER", "PAYMENT" },
    status |-> Statuses \cup {"NA"}, paidAt |-> BOOLEAN,
    requestedBill |-> BOOLEAN, total |-> {3 * k : k \in 0 .. 2 * MaxIsoItemIds},
    paid |-> {12 * k : k \in 0 .. MaxIsoItemIds \div 2}, cancelled |-> BOOLEAN ]

\* A step of worker p in an operation on order o that leaves the value x in
\* the observation f.
StepOn(p, o, f, x) ==
  /\ IF p = OrderClient
       THEN NextIsoOrder(p, InIso) \/ NextIsoPay(p, InIso)
       ELSE \/ CancelOrderRead(p, InIsoOther) \/ CancelOrderTx(p)
            \/ NextIsoPay(p, InIsoOther)
  /\ req'[p].op \in OrderOps /\ req'[p].orderId = o
  /\ Observed(p, o)'[f] = x

\* C26: a step of an operation on order A leaves the row, items, payments
\* and cancellation record of every other order B as they were, and
\* whatever a step of another worker's operation on B comes to (the
\* request's state and what the stores hold of B) is the same before and
\* after it.
C26_NoContention ==
  [][ \A p \in Procs, a \in 1 .. MaxIsoOrders :
        ( /\ req'[p] # req[p]
          /\ req'[p].op \in OrderOps /\ req'[p].orderId = a ) =>
          \A b \in (1 .. MaxIsoOrders) \ {a} :
            /\ OrderSlice(b)' = OrderSlice(b)
            /\ \A f \in DOMAIN ObservedValues :
                 Observed(p, a)'[f] \in ObservedValues[f]
            /\ <<order, items, payments, cancelLog>>'
                 # <<order, items, payments, cancelLog>> =>
                 \A q \in Procs \ {p} :
                   \A f \in DOMAIN ObservedValues :
                     \A x \in ObservedValues[f] :
                       ENABLED StepOn(q, b, f, x)
                         => (ENABLED StepOn(q, b, f, x))' ]_vars

C26_Witness ==
  \E p, q \in Procs :
    /\ req[p].op = "createPayment" /\ req[p].pc = "done" /\ req[p].result = "ok"
    /\ req[q].op = "createPayment" /\ req[q].pc = "cp_paid"
    /\ req[p].orderId # req[q].orderId
    /\ calculatePaidTotal(req[p].orderId) > 0

\* The steps a request at a label has still to take, at most.
StepsLeft ==
  [ cro_create |-> 1, cs_update |-> 1, co_tx |-> 1, sp_update |-> 1,
    mr_update |-> 1, do_txread |-> 2, do_update |-> 1, done |-> 0 ]

C28_PaymentTolerance ==
  [][ \A p \in Procs :
        (req'[p] # req[p] /\ req'[p].op = "createPayment") =>
          LET r == req'[p]
              over == (r.paidTotal + r.amount) - r.orderTotal
          IN /\ r.result = "Payment amount exceeds order total"
                  => over > Tolerance
             /\ req[p].pc = "cp_insert"
                  => (r.pc = "cp_mark" <=> Abs(over) < Tolerance)
             /\ req[p].pc = "cp_mark" => order'[r.orderId].paidAt # NULL
             /\ req[p].pc # "cp_mark" => order' = order ]_vars

\* The step each kitchen and waiter transition makes.
RaceStep ==
  [ startPreparation |-> <<"RECIBIDO", "PREPARACION">>,
    markReady |-> <<"PREPARACION", "LISTO">>,
    deliverOrder |-> <<"LISTO", "ENTREGADO">> ]

\* A kitchen or waiter transition that has read its order and has its
\* conditional update still to make.
AtUpdate(r) == r.pc \in {"sp_update", "mr_update", "do_txread", "do_update"}

\* C29: of the startPreparation (markReady, deliverOrder) calls that have
\* read the same order in the expected status, the one whose conditional
\* update comes first succeeds and moves the status one step, from the
\* expected status to the next, after which the status is no longer the one
\* the other call expects; an update that finds the status moved fails with
\* 'Order status changed' and writes nothing.
C29_OneWinner ==
  [][ \A p \in Procs :
        (AtUpdate(req[p]) /\ req'[p] # req[p]) =>
          LET o == req[p].orderId
              expected == RaceStep[req[p].op][1]
              target == RaceStep[req[p].op][2]
          IN IF order[o].status = expected
               THEN /\ req'[p].pc = "done" => req'[p].result = "ok"
                    /\ req'[p].pc # "done" => req'[p].pc = "do_update"
                    /\ order'[o].status =
                         IF req'[p].pc = "done" THEN target ELSE expected
                    /\ \A q \in Procs \ {p} :
                         ( /\ AtUpdate(req[q]) /\ req[q].op = req[p].op
                           /\ req[q].orderId = o /\ req'[p].pc = "done" )
                         => order'[o].status # RaceStep[req[q].op][1]
               ELSE /\ req'[p].pc = "done"
                    /\ req'[p].result = "Order status changed"
                    /\ order' = order ]_vars

C29_Witness ==
  \E p, q \in Procs :
    /\ req[p].op = "markReady" /\ req[p].pc = "done"
    /\ req[p].result = "Order status changed"
    /\ req[q].op = "markReady" /\ req[q].orderId = req[p].orderId
    /\ req[q].pc = "done" /\ req[q].result = "ok"
    /\ req[p].rdStatus = "PREPARACION" /\ req[q].rdStatus = "PREPARACION"
    /\ order[req[p].orderId].status = "LISTO"

\* C30: the STATUS_CHANGE row a request writes holds the status its order
\* had in the store right before the write and the status it has right
\* after, and a request that ends with an error has written no such row.
C30_AuditMatchesChange ==
  [][ \A p \in Procs :
        req'[p] # req[p] =>
          /\ ( /\ req'[p].audit.action = "STATUS_CHANGE"
               /\ req[p].audit.action # "STATUS_CHANGE" )
             => req'[p].audit.details
                  = << order[req'[p].orderId].status,
                       order'[req'[p].orderId].status >>
          /\ (req'[p].pc = "done" /\ req'[p].result # "ok")
             => req'[p].audit.action # "STATUS_CHANGE" ]_vars

\* C31: getKitchenQueue answers the COCINA role alone, and what it answers
\* lists, oldest first and each once, exactly the orders in RECIBIDO or
\* PREPARACION that are not paid.
C31_KitchenQueue ==
  [][ \A p \in Procs :
        (Ends(p) /\ req'[p].op = "getKitchenQueue") =>
          /\ req'[p].result = "ok" <=> req'[p].role = "COCINA"
          /\ req'[p].result # "ok"
               => ErrorKind(req'[p].result) = "ForbiddenError"
          /\ req'[p].result = "ok" =>
               LET q == Response(req'[p], order', items', payments')[1]
               IN /\ {q[i].id : i \in DOMAIN q}
                       = {o \in DOMAIN order' :
                            /\ order'[o].status \in {"RECIBIDO", "PREPARACION"}
                            /\ order'[o].paidAt = NULL}
                  /\ \A i, j \in DOMAIN q : i < j => q[i].id < q[j].id ]_vars

C31_Witness ==
  \E p \in Procs :
    /\ req[p].op = "getKitchenQueue" /\ req[p].pc = "done"
    /\ req[p].result = "ok"
    /\ Len(getKitchenQueueResult(order, items)) = 1
    /\ Len(order) = 2
    /\ \E o \in DOMAIN order :
         order[o].paidAt # NULL /\ order[o].status = "PREPARACION"

\* C32: an order is CANCELADO exactly when it has a cancel_log row with a
\* reason that is not blank and the user who cancelled it: no write sets
\* CANCELADO without the row, and no write takes an order with the row out of
\* CANCELADO.
C32_CancelledIffRecorded ==
  \A o \in DOMAIN order :
    order[o].status = "CANCELADO"
      <=> \E c \in cancelLog : /\ c.orderId = o
                               /\ Len(trim(c.reason)) > 0
                               /\ c.userId \in {pr.userId : pr \in Principals}

\* C33: no order is CANCELADO and paid at once, and no payment row is
\* inserted for an order that is CANCELADO when the insert happens, however
\* createPayment interleaves with cancelOrder and changeStatus.
C33_NoPaymentOnCancelled ==
  [][ /\ \A o \in DOMAIN order' :
           ~(order'[o].status = "CANCELADO" /\ order'[o].paidAt # NULL)
      /\ \A k \in DOMAIN payments' \ DOMAIN payments :
           order[payments'[k].orderId].status # "CANCELADO" ]_vars

\* C34: when no request is in progress, every order that is not CANCELADO and
\* whose payments add up to the total of its items (within the tolerance) has
\* paidAt set.
C34_CompletionNotMissed ==
  (\A p \in Procs : Ready(p)) =>
    \A o \in DOMAIN order :
      ( /\ order[o].status # "CANCELADO"
        /\ Abs(calculatePaidTotal(o) - calculateOrderTotal(o)) < Tolerance )
        => order[o].paidAt # NULL

\* The status of order o can still be written: some status operation's checks
\* accept the stored row, or a request that passed them has its write to make.
Movable(o) ==
  \/ \E pr \in Principals, ns \in Statuses :
       ChangeStatusCheck(order[o], pr.role, ns) = "ok"
  \/ CancelOrderCheck(order[o], <<"x">>) = "ok"
  \/ KitchenCheck(order[o], "RECIBIDO", "Cannot start preparation") = "ok"
  \/ KitchenCheck(order[o], "PREPARACION", "Cannot mark ready") = "ok"
  \/ order[o].status = "LISTO"
  \/ \E p \in Procs :
       /\ req[p].orderId = o
       /\ req[p].pc \in {"cs_update", "co_tx", "sp_update", "mr_update",
                         "do_txread", "do_update"}

\* An order that cannot be moved keeps its status and stays that way.
StuckStays ==
  [][ \A o \in DOMAIN order :
        ~Movable(o) => (order'[o].status = order[o].status /\ ~Movable(o)') ]_vars

\* C35: no order is stuck in a status that is not terminal: whatever it went
\* through (paid in RECIBIDO or PREPARACION included), an operation that
\* moves it on towards ENTREGADO or CANCELADO is still permitted.
C35_CanReachTerminal ==
  \A o \in DOMAIN order :
    order[o].status \notin {"ENTREGADO", "CANCELADO"} => Movable(o)

\* The Permission that names the edge from -> to: STATUS_TO_CANCELADO for
\* every edge into CANCELADO, STATUS_<from>_TO_<to> for the others.
StatusPermission(from, to) ==
  IF to = "CANCELADO" THEN "STATUS_TO_CANCELADO"
  ELSE "STATUS_" \o from \o "_TO_" \o to

\* C36: on every valid edge canChangeStatus answers as ROLE_PERMISSIONS does
\* for the edge's status permission, for every role; and changeStatus lets a
\* request for a valid edge of an unpaid order through to its write exactly
\* when the caller's role holds that permission.
C36_RoleCheckIsMatrix ==
  /\ [](\A role \in Roles, from \in Statuses :
          \A to \in VALID_STATUS_TRANSITIONS[from] :
            /\ StatusPermission(from, to) \in Permissions
            /\ canChangeStatus(role, from, to)
                 <=> hasPermission(role, StatusPermission(from, to)))
  /\ [][ \A p \in Procs :
           ( /\ Starts(p, "changeStatus")
             /\ req'[p].rdStatus # "NA" /\ req'[p].rdPaidAt = NULL
             /\ isValidStatusTransition(req'[p].rdStatus, req'[p].newStatus) )
           => ( req'[p].pc = "cs_update"
                  <=> hasPermission(req'[p].role,
                        StatusPermission(req'[p].rdStatus, req'[p].newStatus)) )
       ]_vars

\* The waiter was refused the cancelling edge while the cashier's request for
\* it goes on to its write.
C36_Witness ==
  \E p, q \in Procs :
    /\ req[p].op = "changeStatus" /\ req[p].role = "MESERO"
    /\ req[p].rdStatus = "PREPARACION" /\ req[p].newStatus = "CANCELADO"
    /\ req[p].result = "Role cannot change status"
    /\ req[q].op = "changeStatus" /\ req[q].role = "CAJA"
    /\ req[q].rdStatus = "PREPARACION" /\ req[q].newStatus = "CANCELADO"
    /\ req[q].pc = "cs_update"

C38_ReturnAgreesWithStore ==
  [][ \A p \in Procs :
        (Ends(p) /\ req'[p].op = "createPayment" /\ req'[p].result = "ok") =>
          LET r == req'[p]
              o == r.orderId
          IN /\ r.isPaid <=> r.rdPaidAt # NULL
             /\ r.rdPaidAt = order'[o].paidAt
             /\ r.paidTotal + r.amount = SumAmounts(payments', o)
             /\ r.orderTotal = SumItems(items'[o])
             /\ r.isPaid
                  = getOrderPaymentsResult(o, order', items', payments').isPaid
    ]_vars

\* What is persisted, the audit log aside.
Stores == <<order, items, payments, cancelLog, sessions>>

\* Where a createPayment stands once its payment row is inserted.
PostWrite == {"cp_mark", "cp_final"}

\* C39: a request that ends with an error has written nothing: the step
\* that ends it with an error leaves orders, items, payments, cancel_log and
\* cash sessions as they are, and a request that has written (it then is
\* over, or a createPayment past its insert) does not end with an error.
C39_ErrorsWriteNothing ==
  [][ \A p \in Procs :
        req'[p] # req[p] =>
          /\ (req'[p].pc = "done" /\ req'[p].result # "ok")
               => (Stores' = Stores /\ req[p].pc \notin PostWrite)
          /\ Stores' # Stores => req'[p].pc \in PostWrite \cup {"done"}
          /\ req[p].pc \in PostWrite => req'[p].pc \in PostWrite \cup {"done"}
    ]_vars

\* A cancelOrder failed at its transaction and a deleteItem at its delete,
\* on an order that has a payment.
C39_Witness ==
  \E p, q \in Procs :
    /\ req[p].op = "cancelOrder" /\ req[p].result = "Unique constraint failed"
    /\ req[q].op = "deleteItem" /\ req[q].result = "Record not found"
    /\ payments # <<>>

====
